---- MODULE Spec2Model ----
(***************************************************************************)
(* Collaborative update reconciliation of jupyter-analytics-telemetry:     *)
(* the pending-update store, the merge of a pushed update into a notebook  *)
(* (src/src/utils/notebookSync.ts) and the socket client                   *)
(* (WebsocketManager).                                                     *)
(*                                                                         *)
(* JavaScript values are modelled as follows: undefined/null is None, an   *)
(* array is a sequence (indices of the source are 0-based, so the helpers  *)
(* below return 0-based positions and -1 for "not found"), an object is a  *)
(* record.  A cell source is a sequence of lines (Line records), so that a *)
(* prefix added by the code is visible as such.                            *)
(***************************************************************************)
EXTENDS Integers, Sequences, FiniteSets, TLC

\* ------------------------------------------------------------------ bounds
\* the most cells a notebook grows to
MaxCells == 4
\* the most notifications open at once
MaxPrompts == 1
\* the last reading of the clock
MaxTime == 1
\* the most cells the user deletes
MaxDeletes == 1
\* the most connections io() creates
MaxConnections == 2
\* the most events emitted to the server
MaxEmits == 2
\* the most updates in notifications and in the store together
MaxTracked == 2
\* the most notifications open at once when pushes arrive in quick succession
MaxBurst == 2
\* the most fetches of the location sidebar in flight
MaxFetches == 2

None == "none"
Docs == {"A", "B"}

\* ------------------------------------------------------- JavaScript arrays
RECURSIVE indexFrom(_, _, _)
indexFrom(arr, x, i) ==
    IF i > Len(arr) THEN -1
    ELSE IF arr[i] = x THEN i - 1
    ELSE indexFrom(arr, x, i + 1)

indexOf(arr, x) == indexFrom(arr, x, 1)

RECURSIVE lastIndexFrom(_, _, _)
lastIndexFrom(arr, x, i) ==
    IF i < 1 THEN -1
    ELSE IF arr[i] = x THEN i - 1
    ELSE lastIndexFrom(arr, x, i - 1)

lastIndexOf(arr, x) == lastIndexFrom(arr, x, Len(arr))

includes(arr, x) == \E i \in 1..Len(arr) : arr[i] = x

\* arr.filter(u => u.id !== id)
filterOutId(arr, id) == SelectSeq(arr, LAMBDA u : u.id # id)

\* the array with x inserted so that it ends up at 0-based position idx
insertAt(arr, idx, x) ==
    SubSeq(arr, 1, idx) \o <<x>> \o SubSeq(arr, idx + 1, Len(arr))

removeAt(arr, idx) ==
    SubSeq(arr, 1, idx) \o SubSeq(arr, idx + 2, Len(arr))

\* ------------------------------------------------------------ cell sources
\* one line of a cell source: plain text, or a marker line written by the merge
Line(kind, text, time) == [k |-> kind, s |-> text, t |-> time]
Text(s) == Line("text", s, 0)
\* '# YOUR CODE\n\n'
yourCodePrefix == <<Line("your_code", "# YOUR CODE", 0)>>
\* `CELL RECEIVED AT ${timeReceived}\n\n` (markdown), `# CELL RECEIVED AT ...` (code)
receivedPrefix(cellType, timeReceived) ==
    IF cellType = "markdown"
    THEN <<Line("received", "CELL RECEIVED AT", timeReceived)>>
    ELSE <<Line("received", "# CELL RECEIVED AT", timeReceived)>>

\* ------------------------------------------------------------------- cells
\* a notebook cell: its current id, its stored original-id annotation (None
\* when it has none), its type and its source
Cell(id, orig, type, src) == [id |-> id, orig |-> orig, type |-> type, src |-> src]

CellIdPool == <<"n1", "n2", "n3", "n4", "n5", "n6", "n7", "n8">>

\* a new cell gets a fresh id (a UUID): the first pool name no cell of cs uses
FreshCellId(cs) ==
    LET used == {cs[i].id : i \in 1..Len(cs)}
        k == CHOOSE j \in 1..Len(CellIdPool) :
                 /\ CellIdPool[j] \notin used
                 /\ \A h \in 1..(j - 1) : CellIdPool[h] \in used
    IN CellIdPool[k]

\* the original id of every cell, in document order; a cell without annotation
\* is known under its own current id
getOrigCellMapping(cs) ==
    [i \in 1..Len(cs) |-> IF cs[i].orig # None THEN cs[i].orig ELSE cs[i].id]

\* ---------------------------------------------------------------- payloads
\* one element of content.cells: a cell in JSON.  ok = FALSE is an element
\* that is null, on which any property access throws a TypeError
CellUpdate(id, cellId, cellType, source) ==
    [ok |-> TRUE, id |-> id, cell_id |-> cellId, cell_type |-> cellType,
     source |-> source]
NullCellUpdate ==
    [ok |-> FALSE, id |-> None, cell_id |-> None, cell_type |-> None,
     source |-> None]

\* newContent as showUpdateNotification and updateNotebookContent see it:
\* its own id and cell_id (None when absent) and its cells array (hasCells =
\* FALSE when the object has no cells property)
NewContent(id, cellId, hasCells, cs) ==
    [id |-> id, cell_id |-> cellId, hasCells |-> hasCells, cells |-> cs]

\* a || b on ids
Or(a, b) == IF a # None THEN a ELSE b

\* ------------------------------------------------------------------- merge
\* the state the merge works on: the notebook's cells, the updatedCells
\* metadata list, whether an exception ended the loop, and the branch taken
\* for each cell update so far ("append", "first", "repeat" or "throw")
MergeState(cs, upd, threw, branches) ==
    [cells |-> cs, updated |-> upd, threw |-> threw, branches |-> branches]

markCellAsUpdated_NeverMarks(upd, cellId) == upd

markCellAsUpdated(upd, cellId) ==
    IF ~includes(upd, cellId) THEN Append(upd, cellId) ELSE upd

addCell_DropsCell(cs, cu, src) == cs

\* cellUpdate.source = cellUpdateSource; sharedModel.addCell(cellUpdate): a
\* new last cell with the update's id (a fresh one when it has none) and type
addCell(cs, cu, src) ==
    Append(cs, Cell(Or(cu.id, FreshCellId(cs)), None, Or(cu.cell_type, "code"), src))

cellUpdateSource(cu, timeReceived) ==
    LET cellType == Or(cu.cell_type, "code")
    IN receivedPrefix(cellType, timeReceived) \o <<Text(cu.source)>>

\* one iteration of the loop of updateNotebookContent.  origCellMapping and
\* updatedCells are the values read once before the loop
applyCellUpdate(m, cu, origCellMapping, updatedCells, timeReceived) ==
    IF m.threw THEN m
    ELSE IF ~cu.ok THEN [m EXCEPT !.threw = TRUE, !.branches = Append(@, "throw")]
    ELSE
      LET cellIndex == lastIndexOf(origCellMapping, cu.id)
          cellType == Or(cu.cell_type, "code")
          src == cellUpdateSource(cu, timeReceived)
      IN IF cellIndex = -1
         THEN [m EXCEPT !.cells = addCell(@, cu, src),
                        !.branches = Append(@, "append")]
         ELSE IF ~includes(updatedCells, cu.id)
         THEN LET existingSource == m.cells[cellIndex + 1].src
                  newCellAbove ==
                      Cell(FreshCellId(m.cells), None,
                           IF cellType = "markdown" THEN "markdown" ELSE "code",
                           yourCodePrefix \o existingSource)
                  inserted == insertAt(m.cells, cellIndex, newCellAbove)
              IN [m EXCEPT
                    !.cells = [inserted EXCEPT ![cellIndex + 2].src = src],
                    !.updated = markCellAsUpdated(@, cu.id),
                    !.branches = Append(@, "first")]
         ELSE [m EXCEPT !.cells[cellIndex + 1].src = src,
                        !.branches = Append(@, "repeat")]

RECURSIVE applyCellUpdates(_, _, _, _, _)
applyCellUpdates(m, cus, origCellMapping, updatedCells, timeReceived) ==
    IF cus = <<>> THEN m
    ELSE applyCellUpdates(
             applyCellUpdate(m, Head(cus), origCellMapping, updatedCells,
                             timeReceived),
             Tail(cus), origCellMapping, updatedCells, timeReceived)

\* the document part of updateNotebookContent: every exception is caught
\* inside (threw is what the catch block saw), what was done before it stays
mergeContent(cs, upd, isDisposed, newContent, timeReceived) ==
    IF isDisposed \/ ~newContent.hasCells
    THEN MergeState(cs, upd, TRUE, <<"throw">>)
    ELSE applyCellUpdates(MergeState(cs, upd, FALSE, <<>>), newContent.cells,
                          getOrigCellMapping(cs), upd, timeReceived)

\* ----------------------------------------------------------------- logging
LogRecord(action, cellId, sender, senderType, updateId) ==
    [action |-> action, cell_id |-> cellId, sender |-> sender,
     sender_type |-> senderType, update_id |-> updateId]

\* every notebook of the model carries a notebook id in its metadata
notebookIdOf(d) == d

\* the records one call posts: none without user id or notebook id
logPendingUpdateInteraction(uid, nbId, action, cellId, sender, senderType, updateId) ==
    IF uid = None \/ nbId = None THEN <<>>
    ELSE <<LogRecord(action, cellId, sender, senderType, updateId)>>

RECURSIVE logApplySingle(_, _, _, _, _, _, _)
logApplySingle(uid, nbId, cus, cellId, sender, senderType, updateId) ==
    IF cus = <<>> THEN <<>>
    ELSE logPendingUpdateInteraction(
             uid, nbId, "APPLY_SINGLE",
             Or(cellId, Or(Head(cus).id, Head(cus).cell_id)),
             sender, senderType, updateId)
         \o logApplySingle(uid, nbId, Tail(cus), cellId, sender, senderType,
                           updateId)

\* updateNotebookContent: the merge, then the APPLY_SINGLE records, which are
\* inside the same try block and so are skipped when the merge threw
updateNotebookContent(d, cs, upd, isDisposed, newContent, updateId, cellId, sender, senderType, skipLogging, timeReceived, uid) ==
    LET m == mergeContent(cs, upd, isDisposed, newContent, timeReceived)
    IN [cells |-> m.cells, updated |-> m.updated, threw |-> m.threw,
        branches |-> m.branches,
        log |-> IF ~m.threw /\ ~skipLogging /\ updateId # None /\ uid # None
                THEN logApplySingle(uid, notebookIdOf(d), newContent.cells,
                                    cellId, sender, senderType, updateId)
                ELSE <<>>]

\* ----------------------------------------------------------- pending store
\* IPendingUpdate
PendingUpdate(id, message, timeReceived, sender, senderType, updateId, cellId) ==
    [id |-> id, message |-> message, timeReceived |-> timeReceived,
     sender |-> sender, senderType |-> senderType, updateId |-> updateId,
     cellId |-> cellId]

\* what a metadata key holds: an array (kind "array", with its elements), or
\* a value of another kind; for a string, list is its characters
MetadataValue(kind, list) == [kind |-> kind, list |-> list]

\* the values that x || [] replaces by []
Falsy == {"undefined", "null", "false", "zero", "empty string"}

\* the metadata value is returned without the Array.isArray test
getPendingUpdatesFrom_NoArrayTest(panel, isDisposed, value) ==
    IF panel = None \/ isDisposed THEN <<>>
    ELSE IF value.kind \in Falsy THEN <<>> ELSE value.list

\* getPendingUpdates(panel), for a panel that may be null and any value
\* under the pendingUpdates key
getPendingUpdatesFrom(panel, isDisposed, value) ==
    IF panel = None \/ isDisposed THEN <<>>
    ELSE LET list == IF value.kind \in Falsy THEN MetadataValue("array", <<>>) ELSE value
         IN IF list.kind = "array" THEN list.list ELSE <<>>

\* getPendingUpdates on a notebook of the model, whose key holds the array
\* that setPendingUpdates wrote (stored): [] for a disposed panel
getPendingUpdates(stored, isDisposed) ==
    getPendingUpdatesFrom("panel", isDisposed, MetadataValue("array", stored))

\* one call of getPendingUpdates: the panel (None for null), whether it is
\* disposed, the value under the key, and the list returned
Listing(panel, isDisposed, value, result) ==
    [panel |-> panel, isDisposed |-> isDisposed, value |-> value, result |-> result]

getUpdatedCells(stored, isDisposed) == IF isDisposed THEN <<>> ELSE stored

\* removePendingUpdate: the list afterwards and the record it posts
removePendingUpdate(d, stored, isDisposed, cellId, logInteraction, sender, senderType, updateId, uid) ==
    IF isDisposed THEN [updates |-> stored, log |-> <<>>, ran |-> FALSE]
    ELSE
      LET updates == getPendingUpdates(stored, isDisposed)
          found == indexOf([i \in 1..Len(updates) |-> updates[i].id], cellId)
      IN [updates |-> filterOutId(updates, cellId),
          log |-> IF logInteraction /\ found # -1
                  THEN LET updateToRemove == updates[found + 1]
                       IN logPendingUpdateInteraction(
                              uid, notebookIdOf(d), "REMOVE_SINGLE", cellId,
                              Or(sender, updateToRemove.sender),
                              Or(senderType, updateToRemove.senderType),
                              Or(updateId, updateToRemove.updateId))
                  ELSE <<>>,
          ran |-> TRUE]

\* ---------------------------------------------------------------- messages
\* the string handed to handleSyncMessage, by what the code reads of it:
\* json is "none" (no '{' in it), "bad" (JSON.parse throws) or "ok"; for "ok"
\* the parsed action, update_id and content.  content is a cell (update_cell)
\* or a notebook (update_notebook); isNull is a content that is null/absent
Content(isNull, id, cellId, cellType, source, hasCells, cs) ==
    [isNull |-> isNull, id |-> id, cell_id |-> cellId, cell_type |-> cellType,
     source |-> source, hasCells |-> hasCells, cells |-> cs]
CellContent(id, cellId, cellType, source) ==
    Content(FALSE, id, cellId, cellType, source, FALSE, <<>>)
NotebookContent(id, cs) == Content(FALSE, id, None, None, None, TRUE, cs)
Message(json, action, updateId, content) ==
    [json |-> json, action |-> action, update_id |-> updateId,
     content |-> content]

UPDATE_CELL_ACTION == "update_cell"
UPDATE_NOTEBOOK_ACTION == "update_notebook"

\* an open notification: what its two button handlers have closed over.
\* overtaken is history kept for the properties: the store ids whose entry
\* was deferred from a notification that arrived after this one
Prompt(d, newContent, action, sender, senderType, finalUpdateId, cellId) ==
    [panel |-> d, newContent |-> newContent, action |-> action,
     sender |-> sender, senderType |-> senderType,
     updateId |-> finalUpdateId, cellId |-> cellId, overtaken |-> {}]

NoPrompt == Prompt(None, NewContent(None, None, FALSE, <<>>), None, None, None, None, None)

\* cells[0].id || cells[0].cell_id of a non-empty cells array; "throws" when
\* cells[0] is null
firstCellId(cs) ==
    IF ~cs[1].ok THEN "throws" ELSE Or(cs[1].id, cs[1].cell_id)

\* showUpdateNotification up to the insertion of the notification: the Prompt
\* it opens.  random is the value Math.random() gives for the fallback id
showUpdateNotification(d, newContent, action, sender, senderType, updateId, explicitCellId, random) ==
    LET extracted ==
            IF newContent.hasCells /\ Len(newContent.cells) > 0
               /\ firstCellId(newContent.cells) # "throws"
            THEN firstCellId(newContent.cells)
            ELSE None
        cellId == IF explicitCellId # None THEN explicitCellId ELSE extracted
        finalUpdateId == Or(updateId, Or(cellId, random))
    IN IF action \notin {UPDATE_CELL_ACTION, UPDATE_NOTEBOOK_ACTION}
       THEN NoPrompt
       ELSE Prompt(d, newContent, action, sender, senderType, finalUpdateId, cellId)

\* every message opens a notification, whatever its payload
handleSyncMessage_NoChecks(d, message, sender, senderType, random) ==
    showUpdateNotification(d, NewContent(None, None, TRUE, <<>>), UPDATE_NOTEBOOK_ACTION, sender, senderType, message.update_id, None, random)

\* handleSyncMessage: the Prompt opened for the message, NoPrompt when the
\* message is dropped
handleSyncMessage(d, message, sender, senderType, random) ==
    IF message.json # "ok" THEN NoPrompt
    ELSE
      LET c == message.content
          throws == /\ ~c.isNull /\ c.id = None /\ c.cell_id = None
                    /\ c.hasCells /\ Len(c.cells) > 0
                    /\ firstCellId(c.cells) = "throws"
          cellId ==
              IF c.isNull THEN None
              ELSE IF c.id # None THEN c.id
              ELSE IF c.cell_id # None THEN c.cell_id
              ELSE IF c.hasCells /\ Len(c.cells) > 0 THEN firstCellId(c.cells)
              ELSE None
      IN IF throws THEN NoPrompt
         ELSE IF message.action = UPDATE_CELL_ACTION
         THEN showUpdateNotification(
                  d,
                  NewContent(None, None, TRUE,
                             <<IF c.isNull THEN NullCellUpdate
                               ELSE CellUpdate(c.id, c.cell_id, c.cell_type, c.source)>>),
                  message.action, sender, senderType, message.update_id, cellId, random)
         ELSE IF message.action = UPDATE_NOTEBOOK_ACTION
         THEN showUpdateNotification(
                  d,
                  IF c.isNull THEN NewContent(None, None, FALSE, <<>>)
                  ELSE NewContent(c.id, c.cell_id, c.hasCells, c.cells),
                  message.action, sender, senderType, message.update_id, cellId, random)
         ELSE NoPrompt

\* ------------------------------------------------------------- the sidebar
getFilteredUpdates_SelectedIgnoresSet(stored, noPanel, isDisposed, mode, selected) ==
    IF noPanel \/ isDisposed THEN <<>>
    ELSE IF mode = "teacher" THEN SelectSeq(stored, LAMBDA u : u.senderType = "teacher")
    ELSE IF mode \in {"teammates", "selected"} THEN SelectSeq(stored, LAMBDA u : u.senderType = "teammate")
    ELSE stored

\* PendingUpdatesSidebar.getFilteredUpdates
getFilteredUpdates(stored, noPanel, isDisposed, mode, selected) ==
    IF noPanel \/ isDisposed THEN <<>>
    ELSE
      LET updates == getPendingUpdates(stored, isDisposed)
      IN CASE mode = "teacher" ->
                SelectSeq(updates, LAMBDA u : u.senderType = "teacher")
           [] mode = "teammates" ->
                SelectSeq(updates, LAMBDA u : u.senderType = "teammate")
           [] mode = "selected" ->
                SelectSeq(updates, LAMBDA u : u.senderType = "teammate"
                                              /\ u.sender \in selected)
           [] OTHER -> updates

compareByCell_NoInfinity(a, b, origMapping) ==
    lastIndexOf(origMapping, a.id) - lastIndexOf(origMapping, b.id)

\* the comparator of render's sort by cell: ai - bi, where an id that is not
\* in the mapping counts as +Infinity; Infinity - Infinity is NaN, which
\* Array.prototype.sort takes as +0
compareByCell(a, b, origMapping) ==
    LET aPos == lastIndexOf(origMapping, a.id)
        bPos == lastIndexOf(origMapping, b.id)
    IN IF aPos = -1 /\ bPos = -1 THEN 0
       ELSE IF aPos = -1 THEN 1
       ELSE IF bPos = -1 THEN -1
       ELSE aPos - bPos

\* the number in a row's label "Cell n": <<n>>, or <<>> for 'Cell: unknown'
cellLabel(u, origMapping) ==
    IF u.id = None \/ indexOf(origMapping, u.id) = -1 THEN <<>>
    ELSE <<indexOf(origMapping, u.id) + 1>>

\* updates.slice().sort(...) of render with _sortKey 'cell': Array.prototype
\* .sort is stable, so each element goes behind those that compare <= to it
RECURSIVE sortByCell(_, _)
sortByCell(updates, origMapping) ==
    IF updates = <<>> THEN <<>>
    ELSE LET sorted == sortByCell(SubSeq(updates, 1, Len(updates) - 1), origMapping)
             u == updates[Len(updates)]
             before == {i \in 1..Len(sorted) : compareByCell(sorted[i], u, origMapping) <= 0}
         IN insertAt(sorted, Cardinality(before), u)

\* ------------------------------------------------------ applyPendingUpdate
\* the cell id applyPendingUpdate reads from the stored message when the
\* entry has none
messageCellId(message) ==
    IF message.id # None THEN message.id
    ELSE IF message.cell_id # None THEN message.cell_id
    ELSE IF message.hasCells /\ Len(message.cells) > 0
            /\ firstCellId(message.cells) # "throws"
    THEN firstCellId(message.cells)
    ELSE None

\* w is the notebook as a call finds or leaves it, with the records posted
\* and the merge branches taken so far
World(cs, upd, updates, log, branches) ==
    [cells |-> cs, updated |-> upd, updates |-> updates, log |-> log,
     branches |-> branches]

\* updateNotebookContent catches its own exceptions, so the removal that
\* follows the await always runs
applyPendingUpdate(d, w, isDisposed, pending, skipLogging, t, uid) ==
    LET cellId == Or(pending.cellId, messageCellId(pending.message))
        r == updateNotebookContent(d, w.cells, w.updated, isDisposed, pending.message, pending.updateId, cellId, pending.sender, pending.senderType, skipLogging, t, uid)
        rem == removePendingUpdate(d, w.updates, isDisposed, pending.id, FALSE, None, None, None, uid)
    IN World(r.cells, r.updated, rem.updates, w.log \o r.log \o rem.log,
             w.branches \o r.branches)

RECURSIVE applyEach_LogsEach(_, _, _, _, _, _)
applyEach_LogsEach(d, w, isDisposed, us, t, uid) ==
    IF us = <<>> THEN w
    ELSE applyEach_LogsEach(d, applyPendingUpdate(d, w, isDisposed, Head(us), FALSE, t, uid),
                            isDisposed, Tail(us), t, uid)

RECURSIVE applyEach(_, _, _, _, _, _)
applyEach(d, w, isDisposed, us, t, uid) ==
    IF us = <<>> THEN w
    ELSE applyEach(d, applyPendingUpdate(d, w, isDisposed, Head(us), TRUE, t, uid),
                   isDisposed, Tail(us), t, uid)

\* ------------------------------------------------- Update Now: the cleanup
\* the ids the Update Now handler collects from the applied content;
\* <<"throws">> stands for the TypeError on a null element, which the
\* handler's try block turns into "remove nothing"
RECURSIVE idsOfCells(_)
idsOfCells(cs) ==
    IF cs = <<>> THEN <<>>
    ELSE LET id == Or(Head(cs).id, Head(cs).cell_id)
         IN (IF id # None THEN <<id>> ELSE <<>>) \o idsOfCells(Tail(cs))

appliedCellIds(newContent) ==
    IF newContent.hasCells /\ Len(newContent.cells) > 0
    THEN IF \E i \in 1..Len(newContent.cells) : ~newContent.cells[i].ok
         THEN <<>>
         ELSE idsOfCells(newContent.cells)
    ELSE IF newContent.id # None THEN <<newContent.id>>
    ELSE <<>>

RECURSIVE removeEach(_, _)
removeEach(updates, ids) ==
    IF ids = <<>> THEN updates
    ELSE removeEach(filterOutId(updates, Head(ids)), Tail(ids))

\* ------------------------------------------------------------- the channel
\* a string the channel's handlers inspect is the sequence of its characters
isSpace(c) == c = " "

RECURSIVE trimStart(_)
trimStart(str) ==
    IF str # <<>> /\ isSpace(Head(str)) THEN trimStart(Tail(str)) ELSE str

RECURSIVE trimEnd(_)
trimEnd(str) ==
    IF str # <<>> /\ isSpace(str[Len(str)])
    THEN trimEnd(SubSeq(str, 1, Len(str) - 1))
    ELSE str

\* String.prototype.trim
trim(str) == trimEnd(trimStart(str))

\* data.match(/^From\s+([^:]+):/): whether it matches, and its group 1.
\* The ':' matched is the first one of the string ("From" has none); \s+ is
\* greedy but gives one blank back when the blanks run up to that ':'
fromMatch(data) ==
    LET colons == {i \in 1..Len(data) : data[i] = ":"}
        c == IF colons = {} THEN 0 ELSE CHOOSE i \in colons : \A j \in colons : i <= j
        matched == /\ Len(data) >= 7
                   /\ SubSeq(data, 1, 4) = <<"F", "r", "o", "m">>
                   /\ isSpace(data[5])
                   /\ c >= 7
        blanks == {e \in 5..(c - 1) : \A j \in 5..e : isSpace(data[j])}
        e == CHOOSE i \in blanks : \A j \in blanks : j <= i
    IN IF ~matched THEN [matched |-> FALSE, group |-> <<>>]
       ELSE [matched |-> TRUE,
             group |-> IF e < c - 1 THEN SubSeq(data, e + 1, c - 1)
                       ELSE SubSeq(data, c - 1, c - 1)]

legacySenderId_AlwaysDefault(data, defaultSender) == defaultSender

\* the sender the 'chat' and 'group_chat' handlers read from a string payload
legacySenderId(data, defaultSender) ==
    LET m == fromMatch(data)
    IN IF m.matched /\ m.group # <<>> THEN trim(m.group) ELSE defaultSender

\* what a socket event carries: a string, or an object {message, sender,
\* sender_type} (sender_type None when the property is missing)
StringData(chars) ==
    [isString |-> TRUE, chars |-> chars, message |-> <<>>, sender |-> <<>>, sender_type |-> None]
ObjectData(message, sender, senderType) ==
    [isString |-> FALSE, chars |-> <<>>, message |-> message, sender |-> sender, sender_type |-> senderType]

\* one call of the message callback
Delivery(callback, message, sender, senderType) ==
    [callback |-> callback, message |-> message, sender |-> sender, senderType |-> senderType]

TEACHER == <<"t", "e", "a", "c", "h", "e", "r">>
TEAMMATE == <<"t", "e", "a", "m", "m", "a", "t", "e">>

onChatData_TypeOfEvent(messageCallback, data, defaultSender, stringSenderType) ==
    IF messageCallback = None THEN <<>>
    ELSE <<Delivery(messageCallback, IF data.isString THEN data.chars ELSE data.message,
                    IF data.isString THEN legacySenderId(data.chars, defaultSender) ELSE data.sender,
                    stringSenderType)>>

\* the body shared by the 'chat' and 'group_chat' handlers: the calls it
\* makes to messageCallback.  defaultSender and stringSenderType are what
\* the handler uses for a string payload ('teacher' or 'teammate')
onChatData(messageCallback, data, defaultSender, stringSenderType) ==
    IF messageCallback = None THEN <<>>
    ELSE IF data.isString
    THEN <<Delivery(messageCallback, data.chars, legacySenderId(data.chars, defaultSender), stringSenderType)>>
    ELSE <<Delivery(messageCallback, data.message, data.sender,
                    IF data.sender_type = "teacher" THEN "teacher" ELSE "teammate")>>

\* the 'chat' handler
onChat(messageCallback, data) == onChatData(messageCallback, data, TEACHER, "teacher")

\* the 'group_chat' handler
onGroupChat(messageCallback, data) == onChatData(messageCallback, data, TEAMMATE, "teammate")

\* one call of a teammate or location callback, with its arguments
Call(callback, args) == [callback |-> callback, args |-> args]

\* the body shared by the teammate and location handlers: the calls it makes
onEvent(callback, args) == IF callback = None THEN <<>> ELSE <<Call(callback, args)>>

\* a connection made by io(): the ids in its URL and whether it is open
Connection(notebookId, uid, open) == [notebookId |-> notebookId, userId |-> uid, open |-> open]

\* the four callback fields of a WebsocketManager, null after construction
Callbacks(message, teammateChange, locationUpdate, locationCleared) ==
    [message |-> message, teammateChange |-> teammateChange,
     locationUpdate |-> locationUpdate, locationCleared |-> locationCleared]

NoCallbacks == Callbacks(None, None, None, None)

closeSocketConnection_LeavesOpen(conns, sock) == conns

closeSocketConnection_ReopensWhenNull(conns, sock) ==
    IF sock # 0 THEN [conns EXCEPT ![sock].open = FALSE]
    ELSE [c \in 1..Len(conns) |-> [conns[c] EXCEPT !.open = TRUE]]

\* closeSocketConnection: the connections afterwards (_socket becomes null)
closeSocketConnection(conns, sock) ==
    IF sock # 0 THEN [conns EXCEPT ![sock].open = FALSE] ELSE conns

\* one socket.emit: the connection, the event name and its payload
Emit(sock, event, data) == [socket |-> sock, event |-> event, data |-> data]

sendMessageToTeammates_NoSocketTest(sock, uid, message) ==
    <<Emit(sock, "group_message", [userId |-> uid, message |-> message])>>

\* sendMessageToTeammates: what it emits
sendMessageToTeammates(sock, uid, message) ==
    IF sock # 0
    THEN <<Emit(sock, "group_message", [userId |-> uid, message |-> message])>>
    ELSE <<>>

\* sendLocationUpdate: what it emits (cellIndex is <<>> when not passed,
\* else <<the index>>)
sendLocationUpdate(sock, cellId, cellIndex) ==
    IF sock # 0
    THEN <<Emit(sock, "update_location", [cellId |-> cellId, cellIndex |-> cellIndex])>>
    ELSE <<>>

\* ------------------------------------------------------------------- state
VARIABLES
    cells,            \* per notebook: its cells, in document order
    updatedCells,     \* per notebook: the updatedCells metadata list
    pendingUpdates,   \* per notebook: the pendingUpdates metadata list
    disposed,         \* per notebook: panel.isDisposed
    prompts,          \* the open notifications, oldest first
    currentPanel,     \* PendingUpdatesSidebar._currentPanel
    filterMode,       \* PendingUpdatesSidebar._filterMode
    selectedFilters,  \* PendingUpdatesSidebar._selectedTeammateFilters
    timers,           \* the setTimeout callbacks of _boundCellsChanged not yet run
    deletions,        \* how many cells the user has deleted so far
    now,              \* the clock new Date() reads
    userId,           \* PERSISTENT_USER_ID
    socket,           \* WebsocketManager._socket: 0 for null, else the connection
    connections,      \* every connection io() has created, in creation order
    callbacks,        \* WebsocketManager's four registered callbacks
    delivered,        \* the calls the latest socket event made to the registered callbacks
    emitted,          \* the events emitted to the server so far, oldest first
    listed,           \* the latest call of getPendingUpdates: its arguments and its result
    notebookPanel,    \* TeammateLocationSidebar._notebookPanel
    teammateLocations,   \* TeammateLocationSidebar._teammateLocations, in insertion order
    connectedTeammates,  \* TeammateLocationSidebar._connectedTeammates
    headings,         \* TeammateLocationSidebar._headings
    fetches,          \* the fetches of the location sidebar in flight, oldest first
    cleared,          \* history: the peers whose last location event cleared them
    microtasks,       \* the handlers suspended at an await, in the order they resume
    last              \* the handler that ran last, the branches it took and what it posted

channelVars == <<socket, connections, callbacks, delivered, emitted>>

presenceVars ==
    <<notebookPanel, teammateLocations, connectedTeammates, headings, fetches, cleared>>

vars == <<cells, updatedCells, pendingUpdates, disposed, prompts, currentPanel, filterMode, selectedFilters, timers, deletions, now, userId, socket, connections, callbacks, delivered, emitted, listed, notebookPanel, teammateLocations, connectedTeammates, headings, fetches, cleared, microtasks, last>>

\* what `last` records of a handler run: its name, the notebook, the merge
\* branches it took and the interaction records it posted
Ran(op, d, branches, log) ==
    [op |-> op, panel |-> d, branches |-> branches, log |-> log]

\* --------------------------------------------------------- inputs (bounded)
\* the notebook a session starts from: every cell annotated with its
\* original id
InitialCells ==
    { <<Cell("o1", "o1", "code", <<Text("L1")>>),
        Cell("o2", "o2", "markdown", <<Text("L2")>>)>> }

\* the pushes the channel delivers: (message, sender, senderType)
Push(message, sender, senderType) ==
    [message |-> message, sender |-> sender, senderType |-> senderType]

Pushes ==
    { Push(Message("ok", UPDATE_CELL_ACTION, "u1", CellContent("o1", None, "code", "R1")), "teacher", "teacher"),
      Push(Message("ok", UPDATE_CELL_ACTION, None, CellContent("o3", None, "code", "R1")), "tB", "teammate"),
      Push(Message("ok", UPDATE_NOTEBOOK_ACTION, "u3",
                   NotebookContent(None, <<CellUpdate("o1", None, "code", "R1"),
                                           CellUpdate("o2", None, "markdown", "R2")>>)), "teacher", "teacher"),
      Push(Message("ok", UPDATE_NOTEBOOK_ACTION, "u4",
                   Content(FALSE, "o2", None, None, None, FALSE, <<>>)), "teacher", "teacher"),
      Push(Message("none", None, None, Content(TRUE, None, None, None, None, FALSE, <<>>)), "teacher", "teacher"),
      Push(Message("bad", None, None, Content(TRUE, None, None, None, None, FALSE, <<>>)), "teacher", "teacher"),
      Push(Message("ok", "delete_cell", "u9", CellContent("o1", None, "code", "R1")), "teacher", "teacher"),
      Push(Message("ok", UPDATE_CELL_ACTION, "u5", CellContent("o2", None, "markdown", "R2")), "tA", "teammate"),
      Push(Message("ok", UPDATE_CELL_ACTION, "u6", CellContent("o4", None, "code", "R3")), "tA", "teammate") }

RandomIdPool == <<"r1", "r2", "r3", "r4">>

\* Math.random().toString(36)...: an id no open prompt and no store entry has
RandomId ==
    LET used == {prompts[i].updateId : i \in 1..Len(prompts)}
                \cup UNION {{pendingUpdates[d][i].updateId : i \in 1..Len(pendingUpdates[d])} : d \in Docs}
        k == CHOOSE j \in 1..Len(RandomIdPool) :
                 /\ RandomIdPool[j] \notin used
                 /\ \A h \in 1..(j - 1) : RandomIdPool[h] \in used
    IN RandomIdPool[k]

\* two open notebooks with the cells cs, "A" shown by the sidebar, a new
\* WebsocketManager and a new location sidebar
InitWith(cs) ==
    /\ cells = cs
    /\ updatedCells = [d \in Docs |-> <<>>]
    /\ pendingUpdates = [d \in Docs |-> <<>>]
    /\ disposed = [d \in Docs |-> FALSE]
    /\ prompts = <<>>
    /\ currentPanel = "A"
    /\ filterMode = "all"
    /\ selectedFilters = {}
    /\ timers = <<>>
    /\ deletions = 0
    /\ now = 0
    /\ socket = 0
    /\ connections = <<>>
    /\ callbacks = NoCallbacks
    /\ delivered = <<>>
    /\ emitted = <<>>
    /\ listed = Listing(None, FALSE, MetadataValue("undefined", <<>>), <<>>)
    /\ notebookPanel = None
    /\ teammateLocations = <<>>
    /\ connectedTeammates = <<>>
    /\ headings = <<>>
    /\ fetches = <<>>
    /\ cleared = {}
    /\ microtasks = <<>>
    /\ last = Ran("init", None, <<>>, <<>>)

\* both notebooks are copies of the one a session starts from
InitState == \E c \in InitialCells : InitWith([d \in Docs |-> c])

\* a signed-in user
Init ==
    /\ InitState
    /\ userId = "me"

\* ----------------------------------------------------------------- actions
\* the notification's content goes to the store as soon as it is shown
ReceiveMessage_Enqueues(d, push) ==
    /\ ~disposed[d]
    /\ LET p == handleSyncMessage(d, push.message, push.sender, push.senderType, RandomId)
       IN /\ p # NoPrompt => Len(prompts) < MaxPrompts
          /\ prompts' = IF p = NoPrompt THEN prompts ELSE Append(prompts, p)
          /\ pendingUpdates' =
                IF p = NoPrompt THEN pendingUpdates
                ELSE [pendingUpdates EXCEPT ![d] = Append(@, PendingUpdate(Or(p.cellId, p.updateId), p.newContent, now, p.sender, p.senderType, p.updateId, p.cellId))]
          /\ last' = Ran("receive", d, IF p = NoPrompt THEN <<"dropped">> ELSE <<"prompt">>, <<>>)
    /\ UNCHANGED <<cells, updatedCells, disposed, currentPanel, filterMode, selectedFilters, timers, deletions, now, userId, channelVars, listed, presenceVars, microtasks>>

\* the channel's message callback runs handleSyncMessage on notebook d, while
\* fewer than most notifications are open
Receive(d, push, most) ==
    /\ ~disposed[d]
    /\ LET p == handleSyncMessage(d, push.message, push.sender, push.senderType, RandomId)
       IN /\ p # NoPrompt => Len(prompts) < most
          /\ prompts' = IF p = NoPrompt THEN prompts ELSE Append(prompts, p)
          /\ last' = Ran("receive", d, IF p = NoPrompt THEN <<"dropped">> ELSE <<"prompt">>, <<>>)
    /\ UNCHANGED <<cells, updatedCells, pendingUpdates, disposed, currentPanel, filterMode, selectedFilters, timers, deletions, now, userId, channelVars, listed, presenceVars, microtasks>>

\* a push arrives after the user has answered the notifications before it
ReceiveMessage(d, push) == Receive(d, push, MaxPrompts)

\* click on "Update Now" of the i-th open notification
UpdateNow(i) ==
    LET p == prompts[i]
        d == p.panel
        log1 == logPendingUpdateInteraction(userId, notebookIdOf(d), "UPDATE_NOW", p.cellId, p.sender, p.senderType, p.updateId)
        r == updateNotebookContent(d, cells[d], updatedCells[d], disposed[d], p.newContent, p.updateId, p.cellId, p.sender, p.senderType, FALSE, now, userId)
        ids == appliedCellIds(p.newContent)
        cleanup == ids # <<>> /\ ~disposed[d]
    IN /\ Len(r.cells) <= MaxCells
       /\ cells' = [cells EXCEPT ![d] = r.cells]
       /\ updatedCells' = [updatedCells EXCEPT ![d] = r.updated]
       /\ pendingUpdates' = IF cleanup
                            THEN [pendingUpdates EXCEPT ![d] = removeEach(getPendingUpdates(@, disposed[d]), ids)]
                            ELSE pendingUpdates
       /\ currentPanel' = IF cleanup THEN d ELSE currentPanel
       /\ prompts' = removeAt(prompts, i - 1)
       /\ last' = Ran("now", d, r.branches, log1 \o r.log)
       /\ UNCHANGED <<disposed, filterMode, selectedFilters, timers, deletions, now, userId, channelVars, listed, presenceVars, microtasks>>

\* whether some entry of updates has this id
hasId(updates, id) == \E j \in 1..Len(updates) : updates[j].id = id

\* the entry the "Update Later" handler builds from its prompt
newUpdateOf_EmptyMessage(p, t) ==
    PendingUpdate(Or(p.cellId, p.updateId), NewContent(None, None, TRUE, <<>>), t, p.sender, p.senderType, p.updateId, p.cellId)

newUpdateOf_NoFallback(p, t) ==
    PendingUpdate(p.cellId, p.newContent, t, p.sender, p.senderType, p.updateId, p.cellId)

newUpdateOf(p, t) ==
    PendingUpdate(Or(p.cellId, p.updateId), p.newContent, t, p.sender, p.senderType, p.updateId, p.cellId)

laterUpdates_KeepsOld(updates, newUpdate) == Append(updates, newUpdate)

laterUpdates_FirstWins(updates, newUpdate) ==
    IF \E j \in 1..Len(updates) : updates[j].id = newUpdate.id THEN updates
    ELSE Append(updates, newUpdate)

\* updates.filter(u => u.id !== newUpdate.id), then push(newUpdate)
laterUpdates(updates, newUpdate) ==
    Append(filterOutId(updates, newUpdate.id), newUpdate)

\* the history of the open notifications after the i-th was deferred under
\* id: the entry of id now comes from a notification that arrived after the
\* ones before the i-th, and before the ones behind it; kept for the
\* notifications whose content has a cell of that id
overtake(ps, i, id) ==
    [j \in 1..Len(ps) |->
        IF j < i /\ includes(appliedCellIds(ps[j].newContent), id)
        THEN [ps[j] EXCEPT !.overtaken = @ \cup {id}]
        ELSE [ps[j] EXCEPT !.overtaken = @ \ {id}]]

\* click on "Update Later" of the i-th open notification; history tells
\* whether the notifications left open keep the history of what overtook them
Defer(i, history) ==
    LET p == prompts[i]
        d == p.panel
        newUpdate == newUpdateOf(p, now)
    IN /\ pendingUpdates' = [pendingUpdates EXCEPT ![d] = laterUpdates(getPendingUpdates(@, disposed[d]), newUpdate)]
       /\ currentPanel' = d
       /\ prompts' = removeAt(IF history THEN overtake(prompts, i, newUpdate.id) ELSE prompts, i - 1)
       /\ last' = Ran("later", d,
                      <<IF hasId(getPendingUpdates(pendingUpdates[d], disposed[d]), newUpdate.id) THEN "replace" ELSE "insert">>,
                      logPendingUpdateInteraction(userId, notebookIdOf(d), "UPDATE_LATER", p.cellId, p.sender, p.senderType, p.updateId))
       /\ UNCHANGED <<cells, updatedCells, disposed, filterMode, selectedFilters, timers, deletions, now, userId, channelVars, listed, presenceVars, microtasks>>

\* "Update Later" where the order of arrival of the pushes plays no part
UpdateLater(i) == Defer(i, FALSE)

\* the rows the sidebar shows: the filtered view of the current panel's store
Rows ==
    IF currentPanel = None THEN <<>>
    ELSE getFilteredUpdates(pendingUpdates[currentPanel], FALSE, disposed[currentPanel], filterMode, selectedFilters)

\* click on "Apply" of the k-th row
ApplySingle(k) ==
    /\ currentPanel # None
    /\ LET d == currentPanel
           u == Rows[k]
           w == applyPendingUpdate(d, World(cells[d], updatedCells[d], pendingUpdates[d], <<>>, <<>>), disposed[d], u, FALSE, now, userId)
       IN /\ Len(w.cells) <= MaxCells
          /\ cells' = [cells EXCEPT ![d] = w.cells]
          /\ updatedCells' = [updatedCells EXCEPT ![d] = w.updated]
          /\ pendingUpdates' = [pendingUpdates EXCEPT ![d] = w.updates]
          /\ last' = Ran("apply", d, w.branches, w.log)
    /\ UNCHANGED <<disposed, prompts, currentPanel, filterMode, selectedFilters, timers, deletions, now, userId, channelVars, listed, presenceVars, microtasks>>

\* click on "Delete" of the k-th row
DeleteSingle(k) ==
    /\ currentPanel # None
    /\ LET d == currentPanel
           u == Rows[k]
           rem == removePendingUpdate(d, pendingUpdates[d], disposed[d], u.id, TRUE, u.sender, u.senderType, u.updateId, userId)
       IN /\ pendingUpdates' = [pendingUpdates EXCEPT ![d] = rem.updates]
          /\ last' = Ran("delete", d, <<>>, rem.log)
    /\ UNCHANGED <<cells, updatedCells, disposed, prompts, currentPanel, filterMode, selectedFilters, timers, deletions, now, userId, channelVars, listed, presenceVars, microtasks>>

\* Apply All over the whole store instead of the filtered view
ApplyAll_IgnoresFilter ==
    /\ currentPanel # None
    /\ ~disposed[currentPanel]
    /\ Rows # <<>>
    /\ LET d == currentPanel
           w == applyEach(d, World(cells[d], updatedCells[d], pendingUpdates[d], <<>>, <<>>), disposed[d], pendingUpdates[d], now, userId)
       IN /\ Len(w.cells) <= MaxCells
          /\ cells' = [cells EXCEPT ![d] = w.cells]
          /\ updatedCells' = [updatedCells EXCEPT ![d] = w.updated]
          /\ pendingUpdates' = [pendingUpdates EXCEPT ![d] = w.updates]
          /\ last' = Ran("applyAll", d, w.branches, w.log)
    /\ UNCHANGED <<disposed, prompts, currentPanel, filterMode, selectedFilters, timers, deletions, now, userId, channelVars, listed, presenceVars, microtasks>>

\* click on "Apply All"
ApplyAll ==
    /\ currentPanel # None
    /\ ~disposed[currentPanel]
    /\ Rows # <<>>
    /\ LET d == currentPanel
           updates == Rows
           log1 == IF updates[1].updateId # None
                   THEN logPendingUpdateInteraction(userId, notebookIdOf(d), "UPDATE_ALL", None, updates[1].sender, updates[1].senderType, updates[1].updateId)
                   ELSE <<>>
           w == applyEach(d, World(cells[d], updatedCells[d], pendingUpdates[d], log1, <<>>), disposed[d], updates, now, userId)
       IN /\ Len(w.cells) <= MaxCells
          /\ cells' = [cells EXCEPT ![d] = w.cells]
          /\ updatedCells' = [updatedCells EXCEPT ![d] = w.updated]
          /\ pendingUpdates' = [pendingUpdates EXCEPT ![d] = w.updates]
          /\ last' = Ran("applyAll", d, w.branches, w.log)
    /\ UNCHANGED <<disposed, prompts, currentPanel, filterMode, selectedFilters, timers, deletions, now, userId, channelVars, listed, presenceVars, microtasks>>

\* click on "Delete All"
DeleteAll ==
    /\ currentPanel # None
    /\ ~disposed[currentPanel]
    /\ Rows # <<>>
    /\ LET d == currentPanel
           filteredUpdates == Rows
           log1 == IF filteredUpdates[1].updateId # None
                   THEN logPendingUpdateInteraction(userId, notebookIdOf(d), "DELETE_ALL", None, filteredUpdates[1].sender, filteredUpdates[1].senderType, filteredUpdates[1].updateId)
                   ELSE <<>>
           filteredIds == {filteredUpdates[i].id : i \in 1..Len(filteredUpdates)}
       IN /\ pendingUpdates' = [pendingUpdates EXCEPT ![d] = SelectSeq(getPendingUpdates(@, disposed[d]), LAMBDA u : u.id \notin filteredIds)]
          /\ last' = Ran("deleteAll", d, <<>>, log1)
    /\ UNCHANGED <<cells, updatedCells, disposed, prompts, currentPanel, filterMode, selectedFilters, timers, deletions, now, userId, channelVars, listed, presenceVars, microtasks>>

\* the filter select of the sidebar
SetFilterMode(mode) ==
    /\ mode # filterMode
    /\ filterMode' = mode
    /\ last' = Ran("filter", None, <<>>, <<>>)
    /\ UNCHANGED <<cells, updatedCells, pendingUpdates, disposed, prompts, currentPanel, selectedFilters, timers, deletions, now, userId, channelVars, listed, presenceVars, microtasks>>

\* a checkbox of the teammate filter list, shown in 'selected' mode for the
\* teammates that have an entry in the store
ToggleTeammateFilter(id) ==
    /\ currentPanel # None
    /\ ~disposed[currentPanel]
    /\ filterMode = "selected"
    /\ \E i \in 1..Len(pendingUpdates[currentPanel]) :
          /\ pendingUpdates[currentPanel][i].sender = id
          /\ pendingUpdates[currentPanel][i].senderType = "teammate"
    /\ selectedFilters' = IF id \in selectedFilters THEN selectedFilters \ {id}
                          ELSE selectedFilters \cup {id}
    /\ last' = Ran("toggle", None, <<>>, <<>>)
    /\ UNCHANGED <<cells, updatedCells, pendingUpdates, disposed, prompts, currentPanel, filterMode, timers, deletions, now, userId, channelVars, listed, presenceVars, microtasks>>

\* the 'remove' change a deferred cleanup was scheduled for: the oldIndex its
\* closure keeps, and as history whether the removed cell began with the
\* "YOUR CODE" marker and the original id of the cell that followed it (None
\* for the last cell)
Removal(oldIndex, removed, below) ==
    [oldIndex |-> oldIndex,
     marked |-> Len(removed.src) >= Len(yourCodePrefix)
                /\ SubSeq(removed.src, 1, Len(yourCodePrefix)) = yourCodePrefix,
     below |-> below]

\* the user deletes the cell at (0-based) position i of notebook d; the
\* sidebar's cells.changed handler, connected to the panel it shows, defers
\* its cleanup with setTimeout
DeleteCell(d, i) ==
    /\ ~disposed[d]
    /\ Len(cells[d]) > 1
    /\ i \in 0..(Len(cells[d]) - 1)
    /\ cells' = [cells EXCEPT ![d] = removeAt(@, i)]
    /\ deletions < MaxDeletes
    /\ deletions' = deletions + 1
    /\ timers' = IF currentPanel = d
                 THEN Append(timers, Removal(i, cells[d][i + 1],
                                             IF i + 2 <= Len(cells[d])
                                             THEN getOrigCellMapping(cells[d])[i + 2]
                                             ELSE None))
                 ELSE timers
    /\ last' = Ran("deleteCell", d, <<>>, <<>>)
    /\ UNCHANGED <<updatedCells, pendingUpdates, disposed, prompts, currentPanel, filterMode, selectedFilters, now, userId, channelVars, listed, presenceVars, microtasks>>

\* the updatedCells list after the deferred cleanup for oldIndex
cleanupUpdatedCells(cs, upd, isDisposed, oldIndex) ==
    LET origMapping == getOrigCellMapping(cs)
    IN IF Len(origMapping) = 0 \/ oldIndex + 1 > Len(origMapping) THEN upd
       ELSE LET belowId == origMapping[oldIndex + 1]
                updated == getUpdatedCells(upd, isDisposed)
            IN IF includes(updated, belowId)
               THEN SelectSeq(updated, LAMBDA id : id # belowId)
               ELSE upd

\* the oldest deferred cleanup runs, on the panel the sidebar shows by then
RunTimer ==
    /\ timers # <<>>
    /\ timers' = Tail(timers)
    /\ updatedCells' =
          IF currentPanel = None THEN updatedCells
          ELSE [updatedCells EXCEPT ![currentPanel] = cleanupUpdatedCells(cells[currentPanel], @, disposed[currentPanel], Head(timers).oldIndex)]
    /\ last' = Ran("timer", currentPanel, <<>>, <<>>)
    /\ UNCHANGED <<cells, pendingUpdates, disposed, prompts, currentPanel, filterMode, selectedFilters, deletions, now, userId, channelVars, listed, presenceVars, microtasks>>

\* time passes
Tick ==
    /\ now < MaxTime
    /\ now' = now + 1
    /\ last' = Ran("tick", None, <<>>, <<>>)
    /\ UNCHANGED <<cells, updatedCells, pendingUpdates, disposed, prompts, currentPanel, filterMode, selectedFilters, timers, deletions, userId, channelVars, listed, presenceVars, microtasks>>

\* the prompt and store operations on notebook "A", for pushes drawn from ps
Reconcile(ps) ==
    \/ \E push \in ps : ReceiveMessage("A", push)
    \/ \E i \in 1..Len(prompts) : UpdateNow(i)
    \/ \E i \in 1..Len(prompts) : UpdateLater(i)
    \/ \E k \in 1..Len(Rows) : ApplySingle(k)
    \/ \E k \in 1..Len(Rows) : DeleteSingle(k)
    \/ ApplyAll
    \/ DeleteAll

\* the pushes of the teacher
TeacherPushes == {push \in Pushes : push.sender = "teacher"}

\* one notebook, open and shown by the sidebar, whose cells the user leaves
\* alone, and the teacher's pushes
Next ==
    \/ Reconcile(TeacherPushes)
    \/ Tick

Spec == Init /\ [][Next]_vars

\* the teacher's pushes that carry cells
CellPushes == {push \in TeacherPushes : push.message.json = "ok" /\ (push.message.content.hasCells \/ push.message.action = UPDATE_CELL_ACTION)}

\* the same notebook with the user deleting cells, at one clock reading
NextCells ==
    \/ Reconcile(CellPushes)
    \/ \E i \in 0..(MaxCells - 1) : DeleteCell("A", i)
    \/ RunTimer

SpecCells == Init /\ [][NextCells]_vars

\* ------------------------------------------------- actions of the channel
notebookVars == <<cells, updatedCells, pendingUpdates, disposed, prompts, currentPanel, filterMode, selectedFilters, timers, deletions, now, microtasks>>

\* the message callbacks and the other callbacks a caller may register
MessageCallbacks == {"onMessage1", "onMessage2"}
OtherCallbacks == {"callback1"}

\* establishSocketConnection that starts from a manager without callbacks
EstablishSocketConnection_ResetsCallbacks(notebookId, onMessage) ==
    LET closed == closeSocketConnection(connections, socket)
        returnsEarly == notebookId = None \/ userId = None
    IN /\ returnsEarly \/ Len(connections) < MaxConnections
       /\ callbacks' = [NoCallbacks EXCEPT !.message = onMessage]
       /\ connections' = IF returnsEarly THEN closed
                         ELSE Append(closed, Connection(notebookId, userId, TRUE))
       /\ socket' = IF returnsEarly THEN 0 ELSE Len(closed) + 1
       /\ last' = Ran("establish", notebookId, <<>>, <<>>)
       /\ UNCHANGED <<notebookVars, listed, presenceVars, userId, delivered, emitted>>

\* establishSocketConnection(notebookId, onMessage)
EstablishSocketConnection(notebookId, onMessage) ==
    LET closed == closeSocketConnection(connections, socket)
        returnsEarly == notebookId = None \/ userId = None
    IN /\ returnsEarly \/ Len(connections) < MaxConnections
       /\ callbacks' = [callbacks EXCEPT !.message = onMessage]
       /\ connections' = IF returnsEarly THEN closed
                         ELSE Append(closed, Connection(notebookId, userId, TRUE))
       /\ socket' = IF returnsEarly THEN 0 ELSE Len(closed) + 1
       /\ last' = Ran("establish", notebookId, <<>>, <<>>)
       /\ UNCHANGED <<notebookVars, listed, presenceVars, userId, delivered, emitted>>

\* closeSocketConnection()
CloseSocketConnection ==
    /\ connections' = closeSocketConnection(connections, socket)
    /\ socket' = 0
    /\ last' = Ran("close", None, IF socket # 0 THEN <<"close">> ELSE <<"no socket">>, <<>>)
    /\ UNCHANGED <<notebookVars, listed, presenceVars, userId, callbacks, delivered, emitted>>

OnTeammateChange(callback) ==
    /\ callbacks' = [callbacks EXCEPT !.teammateChange = callback]
    /\ last' = Ran("onTeammateChange", None, <<>>, <<>>)
    /\ UNCHANGED <<notebookVars, listed, presenceVars, userId, socket, connections, delivered, emitted>>

OnLocationUpdate_KeepsFirst(callback) ==
    /\ callbacks' = IF callbacks.locationUpdate = None
                    THEN [callbacks EXCEPT !.locationUpdate = callback]
                    ELSE callbacks
    /\ last' = Ran("onLocationUpdate", None, <<>>, <<>>)
    /\ UNCHANGED <<notebookVars, listed, presenceVars, userId, socket, connections, delivered, emitted>>

OnLocationUpdate(callback) ==
    /\ callbacks' = [callbacks EXCEPT !.locationUpdate = callback]
    /\ last' = Ran("onLocationUpdate", None, <<>>, <<>>)
    /\ UNCHANGED <<notebookVars, listed, presenceVars, userId, socket, connections, delivered, emitted>>

OnLocationCleared(callback) ==
    /\ callbacks' = [callbacks EXCEPT !.locationCleared = callback]
    /\ last' = Ran("onLocationCleared", None, <<>>, <<>>)
    /\ UNCHANGED <<notebookVars, listed, presenceVars, userId, socket, connections, delivered, emitted>>

\* sendMessageToTeammates(userId, message)
SendMessageToTeammates(uid, message) ==
    LET emits == sendMessageToTeammates(socket, uid, message)
    IN /\ Len(emitted) + Len(emits) <= MaxEmits
       /\ emitted' = emitted \o emits
       /\ last' = Ran("sendMessageToTeammates", None, IF socket # 0 THEN <<"emit">> ELSE <<"no socket">>, <<>>)
       /\ UNCHANGED <<notebookVars, listed, presenceVars, userId, socket, connections, callbacks, delivered>>

\* sendLocationUpdate(cellId, cellIndex)
SendLocationUpdate(cellId, cellIndex) ==
    LET emits == sendLocationUpdate(socket, cellId, cellIndex)
    IN /\ Len(emitted) + Len(emits) <= MaxEmits
       /\ emitted' = emitted \o emits
       /\ last' = Ran("sendLocationUpdate", None, IF socket # 0 THEN <<"emit">> ELSE <<"no socket">>, <<>>)
       /\ UNCHANGED <<notebookVars, listed, presenceVars, userId, socket, connections, callbacks, delivered>>

\* the peer ids and message bodies of the legacy payloads
PeerIds == {<<"a", "l">>, <<"b", "o">>}
Bodies == {<<" ", "h", "i">>, <<"x", ":", "y">>}

\* the legacy payload `From ${peerId}:${body}`
Legacy(peerId, body) == <<"F", "r", "o", "m", " ">> \o peerId \o <<":">> \o body

\* the payloads the server emits on 'chat' and 'group_chat'
ChatData ==
    { StringData(Legacy(<<"a", "l">>, <<" ", "h", "i">>)),
      StringData(Legacy(<<"b", "o">>, <<"x", ":", "y">>)),
      StringData(<<"F", "r", "o", "m", " ", " ", "b", "o", " ", ":", "x">>),
      StringData(<<"h", "i">>),
      StringData(<<"f", "r", "o", "m", " ", "a", "l", ":", " ", "h", "i">>),
      StringData(<<"F", "r", "o", "m", " ", " ", ":", "h">>),
      ObjectData(<<"h", "i">>, <<"a", "l">>, "teacher"),
      ObjectData(<<"h", "i">>, <<"a", "l">>, "teammate"),
      ObjectData(<<"h", "i">>, <<"a", "l">>, None),
      ObjectData(<<"h", "i">>, <<"b", "o">>, "Teacher") }

\* a 'chat' event arrives on open connection c
ChatEvent(c, data) ==
    /\ c \in 1..Len(connections)
    /\ connections[c].open
    /\ last' = Ran("chat", connections[c].notebookId, <<>>, <<>>)
    /\ delivered' = onChat(callbacks.message, data)
    /\ UNCHANGED <<notebookVars, listed, presenceVars, userId, socket, connections, callbacks, emitted>>

\* a 'group_chat' event arrives on open connection c
GroupChatEvent(c, data) ==
    /\ c \in 1..Len(connections)
    /\ connections[c].open
    /\ last' = Ran("group_chat", connections[c].notebookId, <<>>, <<>>)
    /\ delivered' = onGroupChat(callbacks.message, data)
    /\ UNCHANGED <<notebookVars, listed, presenceVars, userId, socket, connections, callbacks, emitted>>

\* a 'teammate_connected' or 'teammate_disconnected' event arrives on open
\* connection c
TeammateChangeEvent(c, event, data) ==
    /\ c \in 1..Len(connections)
    /\ connections[c].open
    /\ last' = Ran(event, connections[c].notebookId, <<>>, <<>>)
    /\ delivered' = onEvent(callbacks.teammateChange, <<>>)
    /\ UNCHANGED <<notebookVars, listed, presenceVars, userId, socket, connections, callbacks, emitted>>

\* a 'teammate_location_update' event arrives on open connection c
TeammateLocationUpdateEvent(c, data) ==
    /\ c \in 1..Len(connections)
    /\ connections[c].open
    /\ last' = Ran("teammate_location_update", connections[c].notebookId, <<>>, <<>>)
    /\ delivered' = onEvent(callbacks.locationUpdate, <<data>>)
    /\ UNCHANGED <<notebookVars, listed, presenceVars, userId, socket, connections, callbacks, emitted>>

\* a 'teammate_location_cleared' event arrives on open connection c
TeammateLocationClearedEvent(c, data) ==
    /\ c \in 1..Len(connections)
    /\ connections[c].open
    /\ last' = Ran("teammate_location_cleared", connections[c].notebookId, <<>>, <<>>)
    /\ delivered' = onEvent(callbacks.locationCleared, <<data.userId>>)
    /\ UNCHANGED <<notebookVars, listed, presenceVars, userId, socket, connections, callbacks, emitted>>

\* the channel client alone, with or without a signed-in user
InitChannel ==
    /\ InitState
    /\ userId \in {None, "me"}

NextChannel ==
    \/ \E notebookId \in Docs \cup {None}, onMessage \in MessageCallbacks : EstablishSocketConnection(notebookId, onMessage)
    \/ CloseSocketConnection
    \/ \E callback \in OtherCallbacks : OnTeammateChange(callback)
    \/ \E callback \in OtherCallbacks : OnLocationUpdate(callback)
    \/ \E callback \in OtherCallbacks : OnLocationCleared(callback)
    \/ \E c \in 1..MaxConnections, data \in ChatData : ChatEvent(c, data)
    \/ \E c \in 1..MaxConnections, data \in ChatData : GroupChatEvent(c, data)

SpecChannel == InitChannel /\ [][NextChannel]_vars

\* the single-cell pushes of the teacher and of two teammates
SortPushes == {push \in Pushes : push.message.action = UPDATE_CELL_ACTION}

\* the pushes for three cells: one of the teacher, one of each teammate
ViewPushes == {push \in SortPushes : push.message.content.id # "o4"}

\* the sidebar's filter and its batch buttons over deferred updates
NextView ==
    \/ \E push \in ViewPushes : ReceiveMessage("A", push)
    \/ \E i \in 1..Len(prompts) : UpdateLater(i)
    \/ \E mode \in {"all", "teacher", "teammates", "selected"} : SetFilterMode(mode)
    \/ ToggleTeammateFilter("tA")
    \/ ApplyAll
    \/ DeleteAll

SpecView == Init /\ [][NextView]_vars

\* deferring the pushes for four cells, two of them not in the notebook
NextSort ==
    \/ \E push \in SortPushes : ReceiveMessage("A", push)
    \/ \E i \in 1..Len(prompts) : UpdateLater(i)

SpecSort == Init /\ [][NextSort]_vars

\* payloads that carry their cell id in each of the places the resolution
\* looks at, in several of them, and in none
ResolvePushes ==
    { Push(Message("ok", UPDATE_CELL_ACTION, "u1", CellContent("o1", None, "code", "R1")), "teacher", "teacher"),
      Push(Message("ok", UPDATE_CELL_ACTION, "u7", CellContent(None, "o2", "markdown", "R2")), "teacher", "teacher"),
      Push(Message("ok", UPDATE_CELL_ACTION, None, CellContent("o1", "o2", "code", "R1")), "teacher", "teacher"),
      Push(Message("ok", UPDATE_NOTEBOOK_ACTION, "u3",
                   NotebookContent(None, <<CellUpdate("o1", None, "code", "R1"),
                                           CellUpdate("o2", None, "markdown", "R2")>>)), "teacher", "teacher"),
      Push(Message("ok", UPDATE_NOTEBOOK_ACTION, None,
                   NotebookContent(None, <<CellUpdate(None, "o2", "markdown", "R2")>>)), "teacher", "teacher"),
      Push(Message("ok", UPDATE_NOTEBOOK_ACTION, None,
                   NotebookContent("o2", <<CellUpdate("o1", None, "code", "R1")>>)), "teacher", "teacher"),
      Push(Message("ok", UPDATE_CELL_ACTION, "u8", CellContent(None, None, "code", "R3")), "tA", "teammate"),
      Push(Message("ok", UPDATE_CELL_ACTION, None, CellContent(None, None, "code", "R3")), "tA", "teammate"),
      Push(Message("ok", UPDATE_NOTEBOOK_ACTION, None,
                   NotebookContent(None, <<CellUpdate(None, None, "code", "R3")>>)), "tB", "teammate"),
      Push(Message("ok", UPDATE_CELL_ACTION, None, Content(TRUE, None, None, None, None, FALSE, <<>>)), "tB", "teammate") }

\* receiving and deferring these payloads
NextResolve ==
    \/ \E push \in ResolvePushes :
          /\ Len(prompts) + Len(pendingUpdates["A"]) < MaxTracked
          /\ ReceiveMessage("A", push)
    \/ \E i \in 1..Len(prompts) : UpdateLater(i)
    \/ DeleteAll

SpecResolve == Init /\ [][NextResolve]_vars

\* the channel client's connection and its outbound operations
NextSend ==
    \/ \E notebookId \in Docs \cup {None}, onMessage \in MessageCallbacks : EstablishSocketConnection(notebookId, onMessage)
    \/ CloseSocketConnection
    \/ \E message \in {"m1", "m2"} : SendMessageToTeammates("al", message)
    \/ \E cellIndex \in {<<>>, <<0>>} : SendLocationUpdate("o1", cellIndex)

SpecSend == InitChannel /\ [][NextSend]_vars

\* the payloads of the teammate and location events
TeammateData == {[userId |-> "al"]}
LocationData == {[userId |-> "al", cellId |-> "o1", cellIndex |-> <<0>>]}

\* the registrations and the events that reach the registered callbacks
NextCallbacks ==
    \/ \E notebookId \in Docs, onMessage \in MessageCallbacks : EstablishSocketConnection(notebookId, onMessage)
    \/ \E callback \in {"callback1", "callback2"} : OnTeammateChange(callback)
    \/ \E callback \in {"callback1", "callback2"} : OnLocationUpdate(callback)
    \/ \E callback \in {"callback1", "callback2"} : OnLocationCleared(callback)
    \/ \E c \in 1..MaxConnections : ChatEvent(c, ObjectData(<<"h", "i">>, <<"a", "l">>, "teacher"))
    \/ \E c \in 1..MaxConnections, event \in {"teammate_connected", "teammate_disconnected"}, data \in TeammateData : TeammateChangeEvent(c, event, data)
    \/ \E c \in 1..MaxConnections, data \in LocationData : TeammateLocationUpdateEvent(c, data)
    \/ \E c \in 1..MaxConnections, data \in TeammateData : TeammateLocationClearedEvent(c, data)

SpecCallbacks == Init /\ [][NextCallbacks]_vars

\* two pushes for the same cell, with different content
BurstPushes ==
    { Push(Message("ok", UPDATE_CELL_ACTION, "u1", CellContent("o1", None, "code", "R1")), "teacher", "teacher"),
      Push(Message("ok", UPDATE_CELL_ACTION, "u10", CellContent("o1", None, "code", "R4")), "teacher", "teacher") }

\* the prompt and store operations when a second push may arrive while the
\* notification of the first is still open
NextBurst ==
    \/ \E push \in BurstPushes : Receive("A", push, MaxBurst)
    \/ \E i \in 1..Len(prompts) : UpdateNow(i)
    \/ \E i \in 1..Len(prompts) : Defer(i, TRUE)
    \/ \E k \in 1..Len(Rows) : ApplySingle(k)
    \/ \E k \in 1..Len(Rows) : DeleteSingle(k)
    \/ ApplyAll
    \/ DeleteAll
    \/ Tick

SpecBurst == Init /\ [][NextBurst]_vars

\* getPendingUpdates(panel) is called while the pendingUpdates key of the
\* panel's metadata holds value
GetPendingUpdates(panel, isDisposed, value) ==
    /\ listed' = Listing(panel, isDisposed, value, getPendingUpdatesFrom(panel, isDisposed, value))
    /\ last' = Ran("getPendingUpdates", panel, <<>>, <<>>)
    /\ UNCHANGED <<notebookVars, userId, channelVars, presenceVars>>

\* values under the key that are not arrays: absent and other falsy values,
\* an object, a number, true and a string
CorruptValues ==
    {MetadataValue(kind, <<>>) : kind \in Falsy \cup {"object", "number", "true"}}
        \cup {MetadataValue("string", <<"[", "]">>)}

\* deferring updates and listing the store: of no panel, of a disposed panel
\* and of an open one, with the stored array or a corrupt value under the key
NextList ==
    \/ \E push \in ViewPushes : ReceiveMessage("A", push)
    \/ \E i \in 1..Len(prompts) : UpdateLater(i)
    \/ \E value \in CorruptValues \cup {MetadataValue("array", pendingUpdates["A"])} :
          \/ GetPendingUpdates(None, FALSE, value)
          \/ \E isDisposed \in BOOLEAN : GetPendingUpdates("A", isDisposed, value)

SpecList == Init /\ [][NextList]_vars

\* a single-cell update, a whole-notebook update whose second element is
\* null, so that its merge fails after the first cell, and one without cells
BatchPushes ==
    { Push(Message("ok", UPDATE_CELL_ACTION, "u1", CellContent("o1", None, "code", "R1")), "teacher", "teacher"),
      Push(Message("ok", UPDATE_NOTEBOOK_ACTION, "u11",
                   NotebookContent(None, <<CellUpdate("o2", None, "markdown", "R2"),
                                           NullCellUpdate>>)), "teacher", "teacher"),
      Push(Message("ok", UPDATE_NOTEBOOK_ACTION, "u4",
                   Content(FALSE, "o3", None, None, None, FALSE, <<>>)), "teacher", "teacher") }

\* deferring these updates and applying them in batches
NextBatch ==
    \/ \E push \in BatchPushes : ReceiveMessage("A", push)
    \/ \E i \in 1..Len(prompts) : UpdateLater(i)
    \/ \E k \in 1..Len(Rows) : DeleteSingle(k)
    \/ ApplyAll

SpecBatch == Init /\ [][NextBatch]_vars

\* ------------------------------------------------------- location sidebar
\* ITeammateLocation; cellIndex is <<>> when the event carries none
Location(user, cellId, cellIndex) ==
    [userId |-> user, cellId |-> cellId, cellIndex |-> cellIndex]

\* Map.get on the locations, a Map kept as its entries in insertion order:
\* <<>> for undefined, else the one value
locationOf(locs, user) ==
    LET at == {i \in 1..Len(locs) : locs[i].userId = user}
    IN IF at = {} THEN <<>> ELSE <<locs[CHOOSE i \in at : TRUE]>>

\* Map.set always appends: the key's old entry stays next to the new one
mapSet_KeepsOld(locs, loc) == Append(locs, loc)

\* Map.set: the value of a key already there is replaced where it stands
mapSet(locs, loc) ==
    IF locationOf(locs, loc.userId) = <<>> THEN Append(locs, loc)
    ELSE [i \in 1..Len(locs) |-> IF locs[i].userId = loc.userId THEN loc ELSE locs[i]]

\* the loop of _fetchInitialLocations over the fetched array
RECURSIVE setEach(_, _)
setEach(locs, fetched) ==
    IF fetched = <<>> THEN locs
    ELSE setEach(mapSet(locs, Head(fetched)), Tail(fetched))

\* IHeading without its text
Heading(cellId, origCellId, cellIndex) ==
    [cellId |-> cellId, origCellId |-> origCellId, cellIndex |-> cellIndex]

\* one outline entry for every cell whose source is not empty
generateHeadings(cs) ==
    LET origCellMapping == getOrigCellMapping(cs)
        shown == SelectSeq([i \in 1..Len(cs) |-> i], LAMBDA i : cs[i].src # <<>>)
    IN [k \in 1..Len(shown) |->
           Heading(cs[shown[k]].id, origCellMapping[shown[k]], shown[k] - 1)]

\* the teammates at every entry carrying the peer's original cell id
getTeammatesAtCell_EveryMatch(hs, locs, heading) ==
    LET at == SelectSeq(locs, LAMBDA l : l.cellId = heading.origCellId)
    IN [k \in 1..Len(at) |-> at[k].userId]

\* the teammates whose indicator the entry carries
getTeammatesAtCell(hs, locs, heading) ==
    LET headingsWithSameOrigId == SelectSeq(hs, LAMBDA h : h.origCellId = heading.origCellId)
        lastHeading == headingsWithSameOrigId[Len(headingsWithSameOrigId)]
        at == SelectSeq(locs, LAMBDA l : l.cellId = heading.origCellId)
    IN IF heading.cellId # lastHeading.cellId THEN <<>>
       ELSE [k \in 1..Len(at) |-> at[k].userId]

\* a fetch in flight: of the connected teammates or of the locations; next is
\* TRUE for the teammates fetch that refresh() awaits before it fetches the
\* locations; panel is the notebook whose id the request carries
Fetch(kind, next, panel) == [kind |-> kind, next |-> next, panel |-> panel]

\* the user moves to a notebook or closes the last one; the panel's context
\* is ready, so both fetches start at once, while at most most are in flight
Show(panel, most) ==
    /\ panel # None => Len(fetches) + 2 <= most
    /\ notebookPanel' = panel
    /\ headings' = IF panel # None THEN generateHeadings(cells[panel]) ELSE <<>>
    /\ fetches' = IF panel # None
                  THEN fetches \o <<Fetch("teammates", FALSE, panel), Fetch("locations", FALSE, panel)>>
                  ELSE fetches
    /\ teammateLocations' = IF panel # None THEN teammateLocations ELSE <<>>
    /\ connectedTeammates' = IF panel # None THEN connectedTeammates ELSE <<>>
    /\ last' = Ran("setNotebookPanel", panel, <<>>, <<>>)
    /\ UNCHANGED <<notebookVars, userId, channelVars, listed, cleared>>

\* the same with the fetches in flight bounded as everywhere else
SetNotebookPanel(panel) == Show(panel, MaxFetches)

\* refresh(), up to its first await
Refresh ==
    /\ notebookPanel # None => Len(fetches) < MaxFetches
    /\ headings' = IF notebookPanel # None THEN generateHeadings(cells[notebookPanel])
                   ELSE headings
    /\ fetches' = IF notebookPanel # None THEN Append(fetches, Fetch("teammates", TRUE, notebookPanel))
                  ELSE fetches
    /\ last' = Ran("refresh", notebookPanel, <<>>, <<>>)
    /\ UNCHANGED <<notebookVars, userId, channelVars, listed, notebookPanel,
                   teammateLocations, connectedTeammates, cleared>>

\* getConnectedTeammates answers the k-th fetch in flight; refresh() goes on
\* to _fetchInitialLocations, which skips the fetch when no panel is left
TeammatesFetched(k, teammates) ==
    /\ k \in 1..Len(fetches)
    /\ fetches[k].kind = "teammates"
    /\ connectedTeammates' = teammates
    /\ fetches' = IF fetches[k].next /\ notebookPanel # None
                  THEN Append(removeAt(fetches, k - 1), Fetch("locations", FALSE, notebookPanel))
                  ELSE removeAt(fetches, k - 1)
    /\ last' = Ran("teammatesFetched", notebookPanel, <<>>, <<>>)
    /\ UNCHANGED <<notebookVars, userId, channelVars, listed, notebookPanel,
                   teammateLocations, headings, cleared>>

\* the locations callback answers the k-th fetch in flight
LocationsFetched(k, locations) ==
    /\ k \in 1..Len(fetches)
    /\ fetches[k].kind = "locations"
    /\ teammateLocations' = setEach(<<>>, locations)
    /\ fetches' = removeAt(fetches, k - 1)
    /\ last' = Ran("locationsFetched", notebookPanel, <<>>, <<>>)
    /\ UNCHANGED <<notebookVars, userId, channelVars, listed, notebookPanel,
                   connectedTeammates, headings, cleared>>

\* a location-update event of the channel reaches the sidebar
UpdateTeammateLocation(location) ==
    /\ teammateLocations' = mapSet(teammateLocations, location)
    /\ connectedTeammates' =
          IF indexOf(connectedTeammates, location.userId) = -1
          THEN Append(connectedTeammates, location.userId)
          ELSE connectedTeammates
    /\ cleared' = cleared \ {location.userId}
    /\ last' = Ran("updateTeammateLocation", location.userId, <<>>, <<>>)
    /\ UNCHANGED <<notebookVars, userId, channelVars, listed, notebookPanel,
                   headings, fetches>>

\* a location-cleared event of the channel reaches the sidebar
RemoveTeammateLocation(user) ==
    /\ teammateLocations' = SelectSeq(teammateLocations, LAMBDA l : l.userId # user)
    /\ connectedTeammates' = SelectSeq(connectedTeammates, LAMBDA id : id # user)
    /\ cleared' = cleared \cup {user}
    /\ last' = Ran("removeTeammateLocation", user, <<>>, <<>>)
    /\ UNCHANGED <<notebookVars, userId, channelVars, listed, notebookPanel,
                   headings, fetches>>

\* the teammates of the session
Peers == {"al", "bo"}

\* the location events the channel delivers
LocationEvents ==
    {Location(p, c, <<>>) : p \in Peers, c \in {"o1", "o2"}}

\* what a fetch of the locations answers: nothing (also after an error, which
\* the callback turns into an empty array), one location, or an array that
\* names one user twice
FetchedLocations ==
    {<<>>, <<Location("al", "o1", <<>>)>>,
     <<Location("al", "o2", <<>>), Location("bo", "o1", <<>>),
       Location("al", "o1", <<>>)>>}

\* notebook "A": the user has pasted a copy of cell o1 below o2, and the copy
\* carries o1's original id; notebook "B": the pasted copy has been emptied
CopiedCells ==
    [d \in Docs |->
        <<Cell("o1", "o1", "code", <<Text("L1")>>),
          Cell("o2", "o2", "markdown", <<Text("L2")>>),
          Cell("c1", "o1", "code", IF d = "A" THEN <<Text("L3")>> ELSE <<>>)>>]

\* a session on notebooks that hold a pasted copy
InitCopies ==
    /\ InitWith(CopiedCells)
    /\ userId = "me"

\* the location sidebar follows the user between notebooks while the channel
\* delivers location events and the fetches are answered in any order
NextPresence ==
    \/ \E panel \in Docs \cup {None} : SetNotebookPanel(panel)
    \/ Refresh
    \/ \E k \in 1..Len(fetches) :
          \/ \E teammates \in {<<>>, <<"al">>, <<"al", "bo">>} :
                TeammatesFetched(k, teammates)
          \/ \E locations \in FetchedLocations : LocationsFetched(k, locations)
    \/ \E location \in LocationEvents : UpdateTeammateLocation(location)
    \/ \E user \in Peers : RemoveTeammateLocation(user)

SpecPresence == InitCopies /\ [][NextPresence]_vars

\* single-cell pushes reconciled on the notebook that holds a pasted copy
NextCopies == Reconcile(ViewPushes)

SpecCopies == InitCopies /\ [][NextCopies]_vars

\* ================================================================ properties
\* the entries of a store list with this id, in order
withId(updates, id) == SelectSeq(updates, LAMBDA u : u.id = id)

\* the entries of a store list with another id, in order
withoutId(updates, id) == SelectSeq(updates, LAMBDA u : u.id # id)

\* C1: in every state reachable by Update Later, Update Now, single Apply,
\* single Delete, Apply All and Delete All on one document, the Pending
\* Update Store of each document holds at most one entry per id
C1_AtMostOnePerId ==
    \A d \in Docs : \A i, j \in 1..Len(pendingUpdates[d]) :
        pendingUpdates[d][i].id = pendingUpdates[d][j].id => i = j

\* C1's case: an Update Later has just replaced the entry stored under its id
C1_Witness ==
    /\ last.op = "later"
    /\ last.branches = <<"replace">>
    /\ Len(pendingUpdates[last.panel]) >= 1

\* C2: an Update Later for an id the store already holds leaves exactly one
\* entry for that id, carrying the payload of the prompt and the time of the
\* click, and leaves the entries with other ids as they were, in their order
C2_LaterReplaces ==
    [][\A i \in 1..Len(prompts) :
          LET p == prompts[i]
              d == p.panel
              id == Or(p.cellId, p.updateId)
          IN (UpdateLater(i) /\ hasId(pendingUpdates[d], id)) =>
                /\ Len(withId(pendingUpdates'[d], id)) = 1
                /\ withId(pendingUpdates'[d], id)[1].message = p.newContent
                /\ withId(pendingUpdates'[d], id)[1].timeReceived = now
                /\ withoutId(pendingUpdates'[d], id) = withoutId(pendingUpdates[d], id)]_vars

\* C2's case: an Update Later has replaced an entry deferred at an earlier
\* time while an entry with another id is in the store
C2_Witness ==
    /\ last.op = "later"
    /\ last.branches = <<"replace">>
    /\ \E j \in 1..Len(pendingUpdates[last.panel]) :
          /\ pendingUpdates[last.panel][j].id = "o1"
          /\ pendingUpdates[last.panel][j].timeReceived = 1
    /\ \E j \in 1..Len(pendingUpdates[last.panel]) : pendingUpdates[last.panel][j].id # "o1"

\* ---------------------------------------------- the merge, entry by entry
\* what a handler's merge does with each cell update of its payload: the
\* notebook before the entry, the entry, and the notebook after it
EntryStep(pre, cu, post) == [pre |-> pre, cu |-> cu, post |-> post]

RECURSIVE entrySteps(_, _, _, _, _)
entrySteps(m, cus, origCellMapping, updated, timeReceived) ==
    IF cus = <<>> THEN <<>>
    ELSE LET post == applyCellUpdate(m, Head(cus), origCellMapping, updated, timeReceived)
         IN <<EntryStep(m, Head(cus), post)>>
            \o entrySteps(post, Tail(cus), origCellMapping, updated, timeReceived)

\* the entry steps of one call of updateNotebookContent
mergeSteps(cs, upd, isDisposed, newContent, timeReceived) ==
    IF isDisposed \/ ~newContent.hasCells THEN <<>>
    ELSE entrySteps(MergeState(cs, upd, FALSE, <<>>), newContent.cells,
                    getOrigCellMapping(cs), upd, timeReceived)

\* the entry steps of the Apply All loop over the entries us
RECURSIVE applyEachSteps(_, _, _, _, _, _)
applyEachSteps(d, w, isDisposed, us, t, uid) ==
    IF us = <<>> THEN <<>>
    ELSE mergeSteps(w.cells, w.updated, isDisposed, Head(us).message, t)
         \o applyEachSteps(d, applyPendingUpdate(d, w, isDisposed, Head(us), TRUE, t, uid),
                           isDisposed, Tail(us), t, uid)

Range(seq) == {seq[i] : i \in 1..Len(seq)}

\* the entry steps of the handler that takes the current step: those of an
\* Update Now, of a single Apply or of an Apply All
EntryStepsTaken ==
    UNION ( {Range(mergeSteps(cells[prompts[i].panel], updatedCells[prompts[i].panel],
                              disposed[prompts[i].panel], prompts[i].newContent, now)) :
                i \in {j \in 1..Len(prompts) : last'.op = "now" /\ UpdateNow(j)}}
            \cup
            {Range(mergeSteps(cells[currentPanel], updatedCells[currentPanel],
                              disposed[currentPanel], Rows[k].message, now)) :
                k \in {j \in 1..Len(Rows) : last'.op = "apply" /\ ApplySingle(j)}}
            \cup
            {IF last'.op = "applyAll" /\ ApplyAll
             THEN Range(applyEachSteps(currentPanel,
                            World(cells[currentPanel], updatedCells[currentPanel],
                                  pendingUpdates[currentPanel], <<>>, <<>>),
                            disposed[currentPanel], Rows, now, userId))
             ELSE {}} )

\* the entry is applied: the loop reaches it and reads its properties
Applied(e) == ~e.pre.threw /\ e.cu.ok

\* the entry's id is in the mapping of the notebook as the entry finds it
Mapped(e) == includes(getOrigCellMapping(e.pre.cells), e.cu.id)

\* C3 as stated: a first update to a mapped id adds exactly one cell and
\* records the id in UpdatedCellsSet; an update to an id that is and stays
\* in UpdatedCellsSet leaves the cell count unchanged
C3_AsStated ==
    [][\A e \in EntryStepsTaken : Applied(e) =>
          /\ (Mapped(e) /\ ~includes(e.pre.updated, e.cu.id)) =>
                /\ Len(e.post.cells) = Len(e.pre.cells) + 1
                /\ includes(e.post.updated, e.cu.id)
          /\ (includes(e.pre.updated, e.cu.id) /\ includes(e.post.updated, e.cu.id)) =>
                Len(e.post.cells) = Len(e.pre.cells)]_vars

\* C3 amended: a first update to a mapped id adds exactly one cell and
\* records the id in UpdatedCellsSet; an update to an id that is in
\* UpdatedCellsSet and still in the mapping leaves the cell count unchanged
C3_FirstAddsLaterKeeps ==
    [][\A e \in EntryStepsTaken : Applied(e) =>
          /\ (Mapped(e) /\ ~includes(e.pre.updated, e.cu.id)) =>
                /\ Len(e.post.cells) = Len(e.pre.cells) + 1
                /\ includes(e.post.updated, e.cu.id)
          /\ (Mapped(e) /\ includes(e.pre.updated, e.cu.id) /\ includes(e.post.updated, e.cu.id)) =>
                Len(e.post.cells) = Len(e.pre.cells)]_vars

\* C3's case: an update to "o1" was applied after an earlier one had
\* duplicated its cell, and the notebook still has the three cells
C3_Witness ==
    /\ last.op \in {"now", "apply"}
    /\ last.branches = <<"repeat">>
    /\ includes(updatedCells[last.panel], "o1")
    /\ includes(getOrigCellMapping(cells[last.panel]), "o1")
    /\ Len(cells[last.panel]) = 3

\* the 1-based position of the entry's target: the last cell of the
\* notebook, as the entry finds it, that is mapped to the entry's id
TargetIndex(e) == lastIndexOf(getOrigCellMapping(e.pre.cells), e.cu.id) + 1

\* C4: when the first update for an original id is applied and its target
\* cell is at position i with source S, afterwards the cell at position i
\* holds the "YOUR CODE" marker followed by S and the target cell, now at
\* position i + 1, holds the received marker followed by the incoming content
C4_FirstUpdateKeepsPrior ==
    [][\A e \in EntryStepsTaken :
          (Applied(e) /\ Mapped(e) /\ ~includes(e.pre.updated, e.cu.id)) =>
             LET i == TargetIndex(e)
             IN /\ Len(e.post.cells) = Len(e.pre.cells) + 1
                /\ e.post.cells[i].src = yourCodePrefix \o e.pre.cells[i].src
                /\ e.post.cells[i + 1].id = e.pre.cells[i].id
                /\ e.post.cells[i + 1].src = cellUpdateSource(e.cu, now)]_vars

\* C5: applying an update whose id is not in the mapping appends exactly one
\* cell, which holds the received marker and the incoming content, leaves
\* every existing cell as it was, and raises no exception
C5_UnmappedAppends ==
    [][\A e \in EntryStepsTaken : (Applied(e) /\ ~Mapped(e)) =>
          /\ ~e.post.threw
          /\ Len(e.post.cells) = Len(e.pre.cells) + 1
          /\ SubSeq(e.post.cells, 1, Len(e.pre.cells)) = e.pre.cells
          /\ LET c == e.post.cells[Len(e.post.cells)]
             IN /\ c.src = cellUpdateSource(e.cu, now)
                /\ c.src[Len(c.src)] = Text(e.cu.source)]_vars

\* C5's case: an update for "o1" was appended after the user had deleted the
\* cell mapped to "o1"
C5_Witness ==
    /\ last.op \in {"now", "apply", "applyAll"}
    /\ "append" \in Range(last.branches)
    /\ deletions > 0
    /\ LET cs == cells[last.panel]
       IN /\ cs[Len(cs)].id = "o1"
          /\ cs[Len(cs)].orig = None

\* the prompt a push opens on notebook d
promptOf(d, push) == handleSyncMessage(d, push.message, push.sender, push.senderType, RandomId)

\* C6: an Update Later leaves the notebook's cells and UpdatedCellsSet as
\* they were and the store with exactly one entry under the update's id; and
\* a single Apply of a stored entry leaves the cells and UpdatedCellsSet as
\* an Update Now on the push it was deferred from leaves them, from the same
\* notebook at the same clock reading
C6_LaterThenApplyAsNow ==
    [][/\ \A i \in 1..Len(prompts) : UpdateLater(i) =>
             LET d == prompts[i].panel
             IN /\ cells' = cells
                /\ updatedCells' = updatedCells
                /\ Len(withId(pendingUpdates'[d], Or(prompts[i].cellId, prompts[i].updateId))) = 1
       /\ \A k \in 1..Len(Rows) : ApplySingle(k) =>
             LET d == currentPanel
             IN \E push \in Pushes :
                   LET p == promptOf(d, push)
                       viaNow == updateNotebookContent(d, cells[d], updatedCells[d], disposed[d], p.newContent, p.updateId, p.cellId, p.sender, p.senderType, FALSE, now, userId)
                   IN /\ p # NoPrompt
                      /\ Or(p.cellId, p.updateId) = Rows[k].id
                      /\ p.newContent = Rows[k].message
                      /\ cells'[d] = viaNow.cells
                      /\ updatedCells'[d] = viaNow.updated]_vars

\* C6's case: the deferred update for "o1" was applied from the sidebar and
\* duplicated the cell as its first update
C6_Witness ==
    /\ last.op = "apply"
    /\ last.branches = <<"first">>
    /\ includes(updatedCells[last.panel], "o1")
    /\ ~hasId(pendingUpdates[last.panel], "o1")

\* C7: an Apply removes its entry only when the merge succeeded: when the
\* merge raised an exception the entry is still in the store afterwards
C7_FailedApplyKeepsEntry ==
    [][\A k \in 1..Len(Rows) :
          (/\ ApplySingle(k)
           /\ mergeContent(cells[currentPanel], updatedCells[currentPanel], disposed[currentPanel], Rows[k].message, now).threw)
          => \E j \in 1..Len(pendingUpdates'[currentPanel]) : pendingUpdates'[currentPanel][j] = Rows[k]]_vars

\* ---------------------------------------------------------- the channel
\* the connections that are open
OpenConnections == {c \in 1..Len(connections) : connections[c].open}

\* C8: at most one connection is open, and it is the one _socket holds; and
\* an establish with both ids present closes every connection that existed
\* and leaves exactly one open, the new one, bound to the requested notebook
C8_AtMostOneConnection ==
    /\ [](/\ Cardinality(OpenConnections) <= 1
          /\ socket # 0 => socket \in OpenConnections)
    /\ [][\A notebookId \in Docs, onMessage \in MessageCallbacks :
             (EstablishSocketConnection(notebookId, onMessage) /\ userId # None) =>
                /\ socket' = Len(connections) + 1
                /\ connections'[socket'] = Connection(notebookId, userId, TRUE)
                /\ \A c \in 1..Len(connections) : ~connections'[c].open]_vars

\* C8's case: establish for "A", then establish for "B"
C8_Witness ==
    /\ last.op = "establish"
    /\ last.panel = "B"
    /\ socket = 2
    /\ connections = <<Connection("A", "me", FALSE), Connection("B", "me", TRUE)>>

\* C9: an establish with an absent notebook id or an absent user id changes
\* neither the connection nor any registered callback
C9_AbsentIdNoOp ==
    [][\A notebookId \in Docs \cup {None}, onMessage \in MessageCallbacks :
          (/\ EstablishSocketConnection(notebookId, onMessage)
           /\ notebookId = None \/ userId = None)
          => UNCHANGED <<socket, connections, callbacks>>]_vars

\* whether the string starts with "From"
startsWithFrom(str) == Len(str) >= 4 /\ SubSeq(str, 1, 4) = <<"F", "r", "o", "m">>

\* what C10 says of the call made for a string payload: the message is the
\* whole string, the sender type is the event's, the sender is the peer id
\* of the "From <peerId>:<body>" form, and the event's default sender when
\* the string does not start with "From"
LegacyDelivered(call, chars, defaultSender, senderType) ==
    /\ call.callback = callbacks.message
    /\ call.message = chars
    /\ call.senderType = senderType
    /\ \A peerId \in PeerIds, body \in Bodies :
          chars = Legacy(peerId, body) => call.sender = peerId
    /\ ~startsWithFrom(chars) => call.sender = defaultSender

\* C10: a string payload is delivered to the registered message callback,
\* once, as (the whole string, the peer id after "From", teacher) on a
\* 'chat' event and with teammate on a 'group_chat' event; without the
\* prefix the sender is the event's default sender
C10_LegacyString ==
    [][\A c \in OpenConnections, data \in {x \in ChatData : x.isString} :
          callbacks.message # None =>
             /\ ChatEvent(c, data) =>
                   /\ Len(delivered') = 1
                   /\ LegacyDelivered(delivered'[1], data.chars, TEACHER, "teacher")
             /\ GroupChatEvent(c, data) =>
                   /\ Len(delivered') = 1
                   /\ LegacyDelivered(delivered'[1], data.chars, TEAMMATE, "teammate")]_vars

\* C10's case: "From al: hi" arrived on a 'group_chat' event
C10_Witness ==
    /\ last.op = "group_chat"
    /\ delivered = <<Delivery("onMessage1", Legacy(<<"a", "l">>, <<" ", "h", "i">>), <<"a", "l">>, "teammate")>>

\* C11: an object payload {message, sender, sender_type} is delivered to the
\* registered message callback, once, as (message, sender, senderType),
\* where senderType is teacher exactly when sender_type is "teacher" and
\* teammate for every other or missing value, on 'chat' and on 'group_chat'
C11_StructuredPayload ==
    [][\A c \in OpenConnections, data \in {x \in ChatData : ~x.isString} :
          (callbacks.message # None /\ (ChatEvent(c, data) \/ GroupChatEvent(c, data))) =>
             /\ Len(delivered') = 1
             /\ delivered'[1].callback = callbacks.message
             /\ delivered'[1].message = data.message
             /\ delivered'[1].sender = data.sender
             /\ delivered'[1].senderType \in {"teacher", "teammate"}
             /\ delivered'[1].senderType = "teacher" <=> data.sender_type = "teacher"]_vars

\* C11's case: an object payload whose sender_type is not "teacher" arrived
\* on a 'chat' event, whose string payloads are the teacher's
C11_Witness ==
    /\ last.op = "chat"
    /\ delivered = <<Delivery("onMessage2", <<"h", "i">>, <<"b", "o">>, "teammate")>>

\* C12: sendMessageToTeammates and sendLocationUpdate called while _socket
\* is null emit nothing and change nothing the client holds; an establish
\* emits nothing, so what was sent while disconnected is never delivered;
\* and every event emitted went out on the connection open at the call
C12_NoBuffering ==
    /\ [][(/\ socket = 0
           /\ \/ \E message \in {"m1", "m2"} : SendMessageToTeammates("al", message)
              \/ \E cellIndex \in {<<>>, <<0>>} : SendLocationUpdate("o1", cellIndex))
          => UNCHANGED <<emitted, socket, connections, callbacks>>]_vars
    /\ [][(\E notebookId \in Docs \cup {None}, onMessage \in MessageCallbacks :
              EstablishSocketConnection(notebookId, onMessage))
          => emitted' = emitted]_vars
    /\ [][\A e \in 1..Len(emitted') :
             e > Len(emitted) => emitted'[e].socket = socket /\ socket \in OpenConnections]_vars

\* C12's case: a location was sent while disconnected, after an earlier
\* connection had emitted a message and was closed; nothing more was emitted
C12_Witness ==
    /\ last.op = "sendLocationUpdate"
    /\ last.branches = <<"no socket">>
    /\ socket = 0
    /\ connections = <<Connection("A", "me", FALSE)>>
    /\ emitted = <<Emit(1, "group_message", [userId |-> "al", message |-> "m1"])>>

\* C13: closeSocketConnection is idempotent: after a call no connection is
\* open and _socket is null, and a call made right after another call, or
\* while _socket is null, changes nothing of the channel client
C13_TeardownIdempotent ==
    /\ [](last.op = "close" => socket = 0 /\ OpenConnections = {})
    /\ [][(CloseSocketConnection /\ (last.op = "close" \/ socket = 0))
          => UNCHANGED <<socket, connections, callbacks, delivered, emitted>>]_vars

\* C13's case: closeSocketConnection was called with _socket already null,
\* after a connection had been established and closed
C13_Witness ==
    /\ last.op = "close"
    /\ last.branches = <<"no socket">>
    /\ connections = <<Connection("B", "me", FALSE)>>
    /\ callbacks.message = "onMessage1"

\* C14: a registration of the message, teammate-change, location-update or
\* location-cleared callback replaces the callback registered before and
\* leaves the other three alone; nothing else changes a registered callback;
\* and an event calls the callback registered at that time, once, with the
\* event's data, and calls nothing when none is registered
C14_LastRegistrationWins ==
    /\ [][\A callback \in {"callback1", "callback2"} :
             /\ OnTeammateChange(callback) => callbacks' = [callbacks EXCEPT !.teammateChange = callback]
             /\ OnLocationUpdate(callback) => callbacks' = [callbacks EXCEPT !.locationUpdate = callback]
             /\ OnLocationCleared(callback) => callbacks' = [callbacks EXCEPT !.locationCleared = callback]]_vars
    /\ [][\A notebookId \in Docs, onMessage \in MessageCallbacks :
             EstablishSocketConnection(notebookId, onMessage) => callbacks' = [callbacks EXCEPT !.message = onMessage]]_vars
    /\ [][callbacks' # callbacks => last'.op \in {"establish", "onTeammateChange", "onLocationUpdate", "onLocationCleared"}]_vars
    /\ [][\A c \in OpenConnections :
             /\ \A data \in TeammateData, event \in {"teammate_connected", "teammate_disconnected"} :
                   TeammateChangeEvent(c, event, data) =>
                      delivered' = IF callbacks.teammateChange = None THEN <<>>
                                   ELSE <<Call(callbacks.teammateChange, <<>>)>>
             /\ \A data \in LocationData :
                   TeammateLocationUpdateEvent(c, data) =>
                      delivered' = IF callbacks.locationUpdate = None THEN <<>>
                                   ELSE <<Call(callbacks.locationUpdate, <<data>>)>>
             /\ \A data \in TeammateData :
                   TeammateLocationClearedEvent(c, data) =>
                      delivered' = IF callbacks.locationCleared = None THEN <<>>
                                   ELSE <<Call(callbacks.locationCleared, <<"al">>)>>
             /\ ChatEvent(c, ObjectData(<<"h", "i">>, <<"a", "l">>, "teacher")) =>
                   delivered' = <<Delivery(callbacks.message, <<"h", "i">>, <<"a", "l">>, "teacher")>>]_vars

\* C14's case: callback1 and then callback2 were registered for location
\* updates, and a location update was delivered to callback2 alone
C14_Witness ==
    /\ last.op = "teammate_location_update"
    /\ callbacks.locationUpdate = "callback2"
    /\ callbacks.teammateChange = "callback1"
    /\ delivered = <<Call("callback2", <<[userId |-> "al", cellId |-> "o1", cellIndex |-> <<0>>]>>)>>

\* ------------------------------------------------------------ the sidebar
\* whether the filter in force lets entry u through, as C15 states it
InView(u) ==
    \/ filterMode = "all"
    \/ filterMode = "teacher" /\ u.senderType = "teacher"
    \/ filterMode = "teammates" /\ u.senderType = "teammate"
    \/ filterMode = "selected" /\ u.senderType = "teammate" /\ u.sender \in selectedFilters

\* C15: the filtered view holds exactly the entries of the store that the
\* mode lets through (all; senderType teacher; senderType teammate;
\* senderType teammate with the sender in the allow-set), each once; with
\* entries of tA, tB and the teacher and allow-set {tA} it is tA's entry alone
C15_FilteredView ==
    LET store == pendingUpdates[currentPanel]
    IN /\ {Rows[k] : k \in 1..Len(Rows)} = {store[i] : i \in {j \in 1..Len(store) : InView(store[j])}}
       /\ Len(Rows) = Cardinality({j \in 1..Len(store) : InView(store[j])})
       /\ (/\ filterMode = "selected"
           /\ selectedFilters = {"tA"}
           /\ {store[i].sender : i \in 1..Len(store)} = {"tA", "tB", "teacher"})
          => /\ Len(Rows) = 1
             /\ Rows[1].sender = "tA"
             /\ Rows[1].id = "o2"

\* C15's case: the store holds entries of tA, tB and the teacher, the mode
\* is 'selected' with allow-set {tA}, and the view is tA's entry
C15_Witness ==
    /\ filterMode = "selected"
    /\ selectedFilters = {"tA"}
    /\ Len(pendingUpdates["A"]) = 3
    /\ {pendingUpdates["A"][i].sender : i \in 1..3} = {"tA", "tB", "teacher"}
    /\ Len(Rows) = 1
    /\ Rows[1].sender = "tA"

\* the view sorted by cell, as render shows it with _sortKey 'cell'
RowsByCell == sortByCell(Rows, getOrigCellMapping(cells[currentPanel]))

\* the 0-based position of an entry's target in the current mapping, -1 when
\* the target is unmapped
PositionOf(u) == lastIndexOf(getOrigCellMapping(cells[currentPanel]), u.id)

\* C16: the view sorted by cell has the entries of the view, each once; the
\* mapped entries come first, by ascending position of their target in the
\* mapping; the unmapped ones follow, in the order they have in the view
C16_SortByCell ==
    LET sorted == RowsByCell
        rowOf(u) == CHOOSE k \in 1..Len(Rows) : Rows[k] = u
    IN /\ Len(sorted) = Len(Rows)
       /\ {sorted[i] : i \in 1..Len(sorted)} = {Rows[k] : k \in 1..Len(Rows)}
       /\ \A i, j \in 1..Len(sorted) :
             i < j =>
                /\ PositionOf(sorted[i]) = -1 => PositionOf(sorted[j]) = -1
                /\ (PositionOf(sorted[i]) # -1 /\ PositionOf(sorted[j]) # -1)
                      => PositionOf(sorted[i]) < PositionOf(sorted[j])
                /\ (PositionOf(sorted[i]) = -1 /\ PositionOf(sorted[j]) = -1)
                      => rowOf(sorted[i]) < rowOf(sorted[j])

\* C16's case: the store holds, in this order, entries for o4 (unmapped), o2,
\* o3 (unmapped) and o1, and sorting by cell shows o1, o2, o4, o3
C16_Witness ==
    /\ [i \in 1..Len(pendingUpdates["A"]) |-> pendingUpdates["A"][i].id] = <<"o4", "o2", "o3", "o1">>
    /\ [i \in 1..Len(RowsByCell) |-> RowsByCell[i].id] = <<"o1", "o2", "o4", "o3">>

\* whether some cell of cs holds the content of stored entry u
HoldsContentOf(cs, u) ==
    \E i \in 1..Len(cs) : \E n \in 1..Len(cs[i].src) :
        cs[i].src[n] = Text(u.message.cells[1].source)

\* C17: Delete All leaves in the store exactly the entries outside the
\* filtered view, unchanged and in their order, and leaves the notebook
\* alone; Apply All does the same to the store and puts the content of every
\* entry of the view into the notebook, adding at most one cell per entry,
\* while content that only entries outside the view carry is not written
C17_BatchOverViewOnly ==
    [][(ApplyAll \/ DeleteAll) =>
          LET d == currentPanel
              store == pendingUpdates[d]
              inside == SelectSeq(store, InView)
              outside == SelectSeq(store, LAMBDA u : ~InView(u))
          IN /\ pendingUpdates' = [pendingUpdates EXCEPT ![d] = outside]
             /\ DeleteAll => cells' = cells /\ updatedCells' = updatedCells
             /\ ApplyAll =>
                   /\ \A i \in 1..Len(inside) : HoldsContentOf(cells'[d], inside[i])
                   /\ Len(cells'[d]) <= Len(cells[d]) + Len(inside)
                   /\ \A i \in 1..Len(outside) :
                         (\A j \in 1..Len(inside) : inside[j].message.cells[1].source # outside[i].message.cells[1].source)
                         => (HoldsContentOf(cells'[d], outside[i]) <=> HoldsContentOf(cells[d], outside[i]))
                   /\ \A e \in DOMAIN cells : e # d => cells'[e] = cells[e]]_vars

\* C17's case: with the teacher's entry and both teammates' entries stored
\* and the view on the teammates, Apply All has applied two entries and left
\* the teacher's entry in the store
C17_Witness ==
    /\ last.op = "applyAll"
    /\ filterMode = "teammates"
    /\ Len(last.branches) = 2
    /\ Len(pendingUpdates["A"]) = 1
    /\ pendingUpdates["A"][1].senderType = "teacher"
    /\ Len(cells["A"]) = 4
    /\ cells["A"][1].src = <<Text("L1")>>

\* ------------------------------------------------------ the interaction log
\* the action name under which each user decision is to be logged
DecisionAction ==
    [now |-> "UPDATE_NOW", later |-> "UPDATE_LATER", apply |-> "APPLY_SINGLE",
     delete |-> "REMOVE_SINGLE", applyAll |-> "UPDATE_ALL", deleteAll |-> "DELETE_ALL"]

\* C18: every Update Now, Update Later, single Apply, single Delete, Apply
\* All and Delete All posts exactly one record to the interaction log, and
\* that record carries the action name of the decision
C18_OneRecordPerDecision ==
    last.op \in DOMAIN DecisionAction =>
       /\ Len(last.log) = 1
       /\ last.log[1].action = DecisionAction[last.op]

\* C19: an Apply All or a Delete All over a non-empty view posts one record,
\* UPDATE_ALL or DELETE_ALL, and no APPLY_SINGLE and no REMOVE_SINGLE record,
\* whatever the number of entries and of cells in their payloads
C19_BatchLogsAggregateOnly ==
    [][/\ ApplyAll => /\ Len(Rows) > 0
                      /\ Len(last'.log) = 1
                      /\ last'.log[1].action = "UPDATE_ALL"
       /\ DeleteAll => /\ Len(Rows) > 0
                       /\ Len(last'.log) = 1
                       /\ last'.log[1].action = "DELETE_ALL"
       /\ (ApplyAll \/ DeleteAll) =>
             \A n \in 1..Len(last'.log) : last'.log[n].action \notin {"APPLY_SINGLE", "REMOVE_SINGLE"}]_vars

\* C19's case: an Apply All has merged at least two cell updates, those of
\* a whole-notebook payload or of two entries, and posted UPDATE_ALL alone
C19_Witness ==
    /\ last.op = "applyAll"
    /\ Len(last.branches) >= 2
    /\ pendingUpdates[last.panel] = <<>>
    /\ Len(last.log) = 1
    /\ last.log[1].action = "UPDATE_ALL"

\* the cell id of a payload's content in the order C20 gives: content.id,
\* else content.cell_id, else the id (or cell_id) of content.cells[0];
\* None when none of them is there
ResolvedCellId(c) ==
    IF c.isNull THEN None
    ELSE IF c.id # None THEN c.id
    ELSE IF c.cell_id # None THEN c.cell_id
    ELSE IF c.hasCells /\ Len(c.cells) > 0
    THEN (IF c.cells[1].id # None THEN c.cells[1].id ELSE c.cells[1].cell_id)
    ELSE None

\* the ids under which updates are tracked: those of the open notifications
\* and of the stored entries
TrackedIds ==
    {prompts[i].updateId : i \in 1..Len(prompts)}
    \cup {pendingUpdates["A"][i].id : i \in 1..Len(pendingUpdates["A"])}

\* C20: a push opens a notification whose cell id is the one the resolution
\* order gives; when none resolves the notification is opened all the same,
\* under the payload's update_id or, without one, under a new id no tracked
\* update has; and Update Later stores the update under the resolved cell
\* id or, when there is none, under that fallback id
C20_CellIdResolution ==
    /\ [][\A push \in ResolvePushes :
             ReceiveMessage("A", push) =>
                LET p == prompts'[Len(prompts')]
                    resolved == ResolvedCellId(push.message.content)
                IN /\ Len(prompts') = Len(prompts) + 1
                   /\ p.cellId = resolved
                   /\ p.updateId # None
                   /\ push.message.update_id # None => p.updateId = push.message.update_id
                   /\ (resolved = None /\ push.message.update_id = None) => p.updateId \notin TrackedIds]_vars
    /\ [][\A i \in 1..Len(prompts) :
             UpdateLater(i) =>
                \E j \in 1..Len(pendingUpdates'["A"]) :
                   /\ pendingUpdates'["A"][j].message = prompts[i].newContent
                   /\ pendingUpdates'["A"][j].id # None
                   /\ pendingUpdates'["A"][j].id = (IF prompts[i].cellId # None THEN prompts[i].cellId ELSE prompts[i].updateId)]_vars

\* C20's case: two payloads in which no cell id resolves and which carry no
\* update_id were deferred, and the store tracks them under two new ids
C20_Witness ==
    /\ last.op = "later"
    /\ Len(pendingUpdates["A"]) = 2
    /\ pendingUpdates["A"][1].cellId = None
    /\ pendingUpdates["A"][2].cellId = None
    /\ {pendingUpdates["A"][1].id, pendingUpdates["A"][2].id} = {"r1", "r2"}

\* a message handleSyncMessage cannot use: no '{' in it, text that JSON.parse
\* rejects, or an action that is neither update_cell nor update_notebook
Malformed(push) ==
    \/ push.message.json # "ok"
    \/ push.message.action \notin {UPDATE_CELL_ACTION, UPDATE_NOTEBOOK_ACTION}

\* C21: a message with no JSON, with unparseable JSON or with an unknown
\* action changes nothing: no notification is opened and the cells, the
\* pending store, UpdatedCellsSet and the sidebar are as before; and a
\* well-formed message that arrives right after a dropped one opens its
\* notification, for its own action, sender and notebook
C21_MalformedChangesNothing ==
    [][\A push \in TeacherPushes : ReceiveMessage("A", push) =>
          IF Malformed(push)
          THEN UNCHANGED <<cells, updatedCells, pendingUpdates, disposed, prompts, currentPanel, filterMode, selectedFilters, timers, deletions, now, userId>>
          ELSE (last.op = "receive" /\ last.branches = <<"dropped">>) =>
                  /\ Len(prompts') = Len(prompts) + 1
                  /\ SubSeq(prompts', 1, Len(prompts)) = prompts
                  /\ prompts'[Len(prompts')].panel = "A"
                  /\ prompts'[Len(prompts')].action = push.message.action
                  /\ prompts'[Len(prompts')].sender = push.sender
                  /\ prompts'[Len(prompts')].updateId = push.message.update_id
                  /\ UNCHANGED <<cells, updatedCells, pendingUpdates>>]_vars

\* C21's case: a message was dropped while the store held a deferred update
\* and the notebook had absorbed one
C21_Witness ==
    /\ last = Ran("receive", "A", <<"dropped">>, <<>>)
    /\ pendingUpdates["A"] # <<>>
    /\ updatedCells["A"] # <<>>

\* C22: listing the pending updates returns the empty list when there is no
\* panel, when the panel is disposed, and when the value under the key is not
\* an array; for an open panel whose key holds an array it returns that array
C22_ListDegradesToEmpty ==
    /\ (listed.panel = None \/ listed.isDisposed \/ listed.value.kind # "array") =>
          listed.result = <<>>
    /\ (listed.panel # None /\ ~listed.isDisposed /\ listed.value.kind = "array") =>
          listed.result = listed.value.list

\* C22's case: the store holds a deferred update and a listing of the open
\* panel found a string under the key
C22_Witness ==
    /\ last.op = "getPendingUpdates"
    /\ listed.panel = "A"
    /\ ~listed.isDisposed
    /\ listed.value = MetadataValue("string", <<"[", "]">>)
    /\ listed.result = <<>>
    /\ pendingUpdates["A"] # <<>>

\* C23: receiving a push and showing its notification leaves the cells, the
\* pending store and UpdatedCellsSet as they were; and a step that puts an
\* entry into a store is an Update Later, so a notification nobody answers
\* leaves no entry
C23_PromptEnqueuesNothing ==
    [][/\ \A push \in TeacherPushes : ReceiveMessage("A", push) =>
             UNCHANGED <<cells, updatedCells, pendingUpdates>>
       /\ \A d \in Docs :
             (\E k \in 1..Len(pendingUpdates'[d]) :
                 \A j \in 1..Len(pendingUpdates[d]) : pendingUpdates[d][j] # pendingUpdates'[d][k])
             => \E i \in 1..Len(prompts) : UpdateLater(i)]_vars

\* C23's case: a notification was just opened for an update the store, which
\* holds another deferred update, has no entry for
C23_Witness ==
    /\ last = Ran("receive", "A", <<"prompt">>, <<>>)
    /\ Len(prompts) = 1
    /\ pendingUpdates["A"] # <<>>
    /\ ~hasId(pendingUpdates["A"], Or(prompts[1].cellId, prompts[1].updateId))

\* what removes entry e of notebook d's store in this step, when it is one of
\* the operations that consume entries: an Apply or Delete of e, an Apply All
\* or Delete All over a view that shows e, or an Update Later under e's id
ConsumedBySidebar(d, e) ==
    \/ \E k \in 1..Len(Rows) : Rows[k] = e /\ (ApplySingle(k) \/ DeleteSingle(k))
    \/ (\E k \in 1..Len(Rows) : Rows[k] = e) /\ (ApplyAll \/ DeleteAll)
    \/ \E i \in 1..Len(prompts) :
          /\ Defer(i, TRUE)
          /\ prompts[i].panel = d
          /\ Or(prompts[i].cellId, prompts[i].updateId) = e.id

\* C24: an entry leaves the store only when it is applied, deleted, replaced
\* by a deferral under its id, or when an Update Now applies a push for its
\* cell that arrived after the push it was deferred from (or applies the very
\* content the entry holds)
C24_StaysUntilConsumed ==
    [][\A d \in Docs : \A n \in 1..Len(pendingUpdates[d]) :
          LET e == pendingUpdates[d][n]
          IN (\A m \in 1..Len(pendingUpdates'[d]) : pendingUpdates'[d][m] # e) =>
                \/ ConsumedBySidebar(d, e)
                \/ \E i \in 1..Len(prompts) :
                      /\ UpdateNow(i)
                      /\ prompts[i].panel = d
                      /\ includes(appliedCellIds(prompts[i].newContent), e.id)
                      /\ (e.id \notin prompts[i].overtaken \/ prompts[i].newContent = e.message)]_vars

\* the same without the order of arrival: an Update Now for the entry's cell
\* removes the entry whenever its push arrived
C24_RemovedOnlyByThese ==
    [][\A d \in Docs : \A n \in 1..Len(pendingUpdates[d]) :
          LET e == pendingUpdates[d][n]
          IN (\A m \in 1..Len(pendingUpdates'[d]) : pendingUpdates'[d][m] # e) =>
                \/ ConsumedBySidebar(d, e)
                \/ \E i \in 1..Len(prompts) :
                      /\ UpdateNow(i)
                      /\ prompts[i].panel = d
                      /\ includes(appliedCellIds(prompts[i].newContent), e.id)]_vars

\* where the locations name the user
holders(locs, user) == {i \in 1..Len(locs) : locs[i].userId = user}

\* C25 as stated: the tracker holds at most one location per peer, and a peer
\* whose location a location-cleared event removed has no location until its
\* next location-update event
C25_ClearedUntilNextUpdate ==
    /\ \A p \in Peers : Cardinality(holders(teammateLocations, p)) <= 1
    /\ \A p \in cleared : holders(teammateLocations, p) = {}

\* C25: the tracker holds at most one location per peer; a location-update
\* event for p puts its location in place of p's previous one and leaves the
\* other peers' locations alone; a location-cleared event for p removes p's
\* location; and a peer without a location gets one only by its own
\* location-update event or by a fetch of the locations that answers with one
\* for it
C25_OnePerPeer ==
    [][/\ \A p \in Peers : Cardinality(holders(teammateLocations', p)) <= 1
       /\ \A location \in LocationEvents :
             UpdateTeammateLocation(location) =>
                /\ locationOf(teammateLocations', location.userId) = <<location>>
                /\ \A q \in Peers \ {location.userId} :
                      locationOf(teammateLocations', q) = locationOf(teammateLocations, q)
       /\ \A p \in Peers :
             RemoveTeammateLocation(p) =>
                /\ holders(teammateLocations', p) = {}
                /\ \A q \in Peers \ {p} :
                      locationOf(teammateLocations', q) = locationOf(teammateLocations, q)
       /\ \A p \in Peers :
             (holders(teammateLocations, p) = {} /\ holders(teammateLocations', p) # {}) =>
                \/ \E location \in LocationEvents :
                      location.userId = p /\ UpdateTeammateLocation(location)
                \/ \E k \in 1..Len(fetches) : \E locations \in FetchedLocations :
                      /\ \E i \in 1..Len(locations) : locations[i].userId = p
                      /\ LocationsFetched(k, locations)
      ]_vars

\* a fetch has brought back the location of a peer that a location-cleared
\* event had removed, next to the location of another peer
C25_Witness ==
    /\ last = Ran("locationsFetched", "A", <<>>, <<>>)
    /\ cleared = {"al"}
    /\ locationOf(teammateLocations, "al") = <<Location("al", "o1", <<>>)>>
    /\ locationOf(teammateLocations, "bo") = <<Location("bo", "o1", <<>>)>>

\* the outline entries on which the sidebar draws the user's indicator
shownAt(user) ==
    {k \in 1..Len(headings) :
        \E i \in 1..Len(getTeammatesAtCell(headings, teammateLocations, headings[k])) :
           getTeammatesAtCell(headings, teammateLocations, headings[k])[i] = user}

\* C26: a peer located at an original id that outline entries carry is shown
\* on exactly one entry, the last of those that carry the id, also when
\* several entries share the id
C26_OnlyOnLastEntry ==
    \A l \in Range(teammateLocations) :
       LET same == {k \in 1..Len(headings) : headings[k].origCellId = l.cellId}
       IN same # {} =>
             shownAt(l.userId) = {CHOOSE k \in same : \A j \in same : j <= k}

\* the outline of notebook "A" has two entries for original id o1, and the
\* peer located at o1 is shown on the lower one
C26_Witness ==
    /\ last = Ran("updateTeammateLocation", "al", <<>>, <<>>)
    /\ notebookPanel = "A"
    /\ {k \in 1..Len(headings) : headings[k].origCellId = "o1"} = {1, 3}
    /\ locationOf(teammateLocations, "al") = <<Location("al", "o1", <<>>)>>
    /\ shownAt("al") = {3}

\* C27: every applied entry of a payload whose id is in the mapping of the
\* notebook as the entry finds it has its incoming content written to a cell
\* mapped to that id, also when an earlier entry of the payload inserted a
\* cell
C27_EntryReachesItsCell ==
    [][\A e \in EntryStepsTaken : (Applied(e) /\ Mapped(e)) =>
          \E k \in 1..Len(e.post.cells) :
             /\ getOrigCellMapping(e.post.cells)[k] = e.cu.id
             /\ e.post.cells[k].src = cellUpdateSource(e.cu, now)]_vars

\* the positions (1-based) of the cells mapped to the id
sharing(cs, id) == {i \in 1..Len(cs) : getOrigCellMapping(cs)[i] = id}

\* C28: when several cells of the notebook share the id of an applied entry
\* and no update for the id has been absorbed yet, the incoming content is
\* written to the first of those cells
C28_DeliveredToFirst ==
    [][\A e \in EntryStepsTaken :
          (/\ Applied(e)
           /\ Cardinality(sharing(e.pre.cells, e.cu.id)) > 1
           /\ ~includes(e.pre.updated, e.cu.id)) =>
             LET first == indexOf(getOrigCellMapping(e.pre.cells), e.cu.id) + 1
             IN \E k \in 1..Len(e.post.cells) :
                   /\ e.post.cells[k].id = e.pre.cells[first].id
                   /\ e.post.cells[k].src = cellUpdateSource(e.cu, now)]_vars

\* C29: when several cells of the shown notebook share the id of a row, the
\* number in the row's label is the position of the last of those cells, the
\* position by which the sort by cell places the row
C29_LabelIsLastMatch ==
    \A k \in 1..Len(Rows) :
       Cardinality(sharing(cells[currentPanel], Rows[k].id)) > 1 =>
          cellLabel(Rows[k], getOrigCellMapping(cells[currentPanel])) = <<PositionOf(Rows[k]) + 1>>

\* the removed cell is the duplicate that holds the user's prior work for
\* the id: it carries the "YOUR CODE" marker and stood directly above the
\* cell mapped to the id while the id was in UpdatedCellsSet
holdsPriorWork(removal, id, updated) ==
    /\ removal.below = id
    /\ includes(updated, id)
    /\ removal.marked

\* C30: the cleanup that follows the deletion of a cell removes an original
\* id from UpdatedCellsSet exactly when the deleted cell is the duplicate
\* holding the user's prior work for that id; after the deletion of any
\* other cell it leaves UpdatedCellsSet as it was
C30_RemovedWithItsDuplicate ==
    [][(RunTimer /\ currentPanel # None) =>
          LET removal == Head(timers)
              updated == updatedCells[currentPanel]
          IN updatedCells'[currentPanel] =
                SelectSeq(updated, LAMBDA id : ~holdsPriorWork(removal, id, updated))]_vars

\* C31: UpdatedCellsSet changes only when updates are applied and when the
\* cleanup after a local deletion runs; every applied entry, also one that is
\* applied by appending a new cell, leaves its id in the set and adds no
\* other id
C31_SetIsAppliedIds ==
    [][/\ \A e \in EntryStepsTaken : Applied(e) =>
             Range(e.post.updated) = Range(e.pre.updated) \cup {e.cu.id}
       /\ updatedCells' # updatedCells =>
             last'.op \in {"now", "apply", "applyAll", "timer"}]_vars

\* the items of the Apply All loop over the entries us: each entry with the
\* notebook as its applyPendingUpdate call finds and leaves it
RECURSIVE applyEachItems(_, _, _, _, _, _)
applyEachItems(d, w, isDisposed, us, t, uid) ==
    IF us = <<>> THEN <<>>
    ELSE LET post == applyPendingUpdate(d, w, isDisposed, Head(us), TRUE, t, uid)
         IN <<[pending |-> Head(us), pre |-> w, post |-> post]>>
            \o applyEachItems(d, post, isDisposed, Tail(us), t, uid)

\* the items of the Apply All that takes the current step
ItemsTaken ==
    IF last'.op = "applyAll" /\ ApplyAll
    THEN applyEachItems(currentPanel,
                        World(cells[currentPanel], updatedCells[currentPanel],
                              pendingUpdates[currentPanel], <<>>, <<>>),
                        disposed[currentPanel], Rows, now, userId)
    ELSE <<>>

\* the merge of the item raised an exception
Failed(item) ==
    mergeContent(item.pre.cells, item.pre.updated, FALSE, item.pending.message, now).threw

\* C32: in Apply All an item whose apply fails leaves the cells and
\* UpdatedCellsSet as they were before the item; the items after it are still
\* applied, the last one leaving the notebook as the step leaves it; and no
\* item changes a store entry other than its own
C32_ItemAllOrNothing ==
    [][\A n \in 1..Len(ItemsTaken) :
          LET item == ItemsTaken[n]
          IN /\ Failed(item) =>
                   /\ item.post.cells = item.pre.cells
                   /\ item.post.updated = item.pre.updated
             /\ ~Failed(item) =>
                   \A c \in 1..Len(item.pending.message.cells) :
                      \E k \in 1..Len(item.post.cells) :
                         item.post.cells[k].src = cellUpdateSource(item.pending.message.cells[c], now)
             /\ n = Len(ItemsTaken) => item.post.cells = cells'[currentPanel]
             /\ item.post.updates = filterOutId(item.pre.updates, item.pending.id)]_vars

\* ------------------------------------------------- operations on a closed notebook
\* the user closes notebook d: JupyterLab disposes the panel; notifications
\* live in document.body and stay open, the metadata stays in the model
DisposePanel(d) ==
    /\ ~disposed[d]
    /\ disposed' = [disposed EXCEPT ![d] = TRUE]
    /\ last' = Ran("dispose", d, <<>>, <<>>)
    /\ UNCHANGED <<cells, updatedCells, pendingUpdates, prompts, currentPanel, filterMode, selectedFilters, timers, deletions, now, userId, channelVars, listed, presenceVars, microtasks>>

\* notebook "A" with its prompts, its store and its deletions, closed at
\* any moment
NextClosed ==
    \/ Reconcile(BatchPushes)
    \/ \E i \in 0..(MaxCells - 1) : DeleteCell("A", i)
    \/ RunTimer
    \/ DisposePanel("A")

SpecClosed == Init /\ [][NextClosed]_vars

MutatingOps == {"now", "later", "apply", "delete", "applyAll", "deleteAll", "timer"}

\* C33: a mutating operation (Update Now, Update Later, Apply, Delete,
\* Apply All, Delete All, the deletion cleanup) on a disposed notebook
\* leaves its stored Pending Update list, its UpdatedCellsSet and its cells
\* as they were
C33_DisposedIsNoOp ==
    [][\A d \in Docs :
          (disposed[d] /\ last'.op \in MutatingOps /\ last'.panel = d) =>
             /\ cells'[d] = cells[d]
             /\ updatedCells'[d] = updatedCells[d]
             /\ pendingUpdates'[d] = pendingUpdates[d]]_vars

\* ------------------------------------------------- handlers as the event loop runs them
\* the handlers that apply an update are async: each runs up to its await
\* of updateNotebookContent, which has no await of its own and so merges
\* in one piece, and resumes as a microtask
Continuation(op, d, prompt, pending, rest) ==
    [op |-> op, panel |-> d, prompt |-> prompt, pending |-> pending, rest |-> rest]

\* a listener starts as a task: the microtasks of the task before it have
\* all run
idle_AnyTime == TRUE

idle == microtasks = <<>>

\* applyPendingUpdate up to its await: the merge of one store entry
applyPendingUpdateMerge(d, cs, upd, isDisposed, pending, skipLogging, t, uid) ==
    updateNotebookContent(d, cs, upd, isDisposed, pending.message, pending.updateId,
                          Or(pending.cellId, messageCellId(pending.message)),
                          pending.sender, pending.senderType, skipLogging, t, uid)

\* click on "Update Now" of the i-th open notification, up to the await
BeginUpdateNow(i) ==
    LET p == prompts[i]
        d == p.panel
        log1 == logPendingUpdateInteraction(userId, notebookIdOf(d), "UPDATE_NOW", p.cellId, p.sender, p.senderType, p.updateId)
        r == updateNotebookContent(d, cells[d], updatedCells[d], disposed[d], p.newContent, p.updateId, p.cellId, p.sender, p.senderType, FALSE, now, userId)
    IN /\ idle
       /\ Len(r.cells) <= MaxCells
       /\ cells' = [cells EXCEPT ![d] = r.cells]
       /\ updatedCells' = [updatedCells EXCEPT ![d] = r.updated]
       /\ microtasks' = Append(microtasks, Continuation("now", d, <<p>>, <<>>, <<>>))
       /\ last' = Ran("beginNow", d, r.branches, log1 \o r.log)
       /\ UNCHANGED <<pendingUpdates, disposed, prompts, currentPanel, filterMode, selectedFilters, timers, deletions, now, userId, channelVars, listed, presenceVars>>

\* click on "Apply" of the k-th row, up to the await
BeginApply(k) ==
    /\ idle
    /\ currentPanel # None
    /\ LET d == currentPanel
           u == Rows[k]
           r == applyPendingUpdateMerge(d, cells[d], updatedCells[d], disposed[d], u, FALSE, now, userId)
       IN /\ Len(r.cells) <= MaxCells
          /\ cells' = [cells EXCEPT ![d] = r.cells]
          /\ updatedCells' = [updatedCells EXCEPT ![d] = r.updated]
          /\ microtasks' = Append(microtasks, Continuation("apply", d, <<>>, <<u>>, <<>>))
          /\ last' = Ran("beginApply", d, r.branches, r.log)
    /\ UNCHANGED <<pendingUpdates, disposed, prompts, currentPanel, filterMode, selectedFilters, timers, deletions, now, userId, channelVars, listed, presenceVars>>

\* click on "Apply All", up to the await of the first item
BeginApplyAll ==
    /\ idle
    /\ currentPanel # None
    /\ ~disposed[currentPanel]
    /\ Rows # <<>>
    /\ LET d == currentPanel
           updates == Rows
           log1 == IF updates[1].updateId # None
                   THEN logPendingUpdateInteraction(userId, notebookIdOf(d), "UPDATE_ALL", None, updates[1].sender, updates[1].senderType, updates[1].updateId)
                   ELSE <<>>
           r == applyPendingUpdateMerge(d, cells[d], updatedCells[d], disposed[d], updates[1], TRUE, now, userId)
       IN /\ Len(applyEach(d, World(cells[d], updatedCells[d], pendingUpdates[d], <<>>, <<>>), disposed[d], updates, now, userId).cells) <= MaxCells
          /\ cells' = [cells EXCEPT ![d] = r.cells]
          /\ updatedCells' = [updatedCells EXCEPT ![d] = r.updated]
          /\ microtasks' = Append(microtasks, Continuation("applyAll", d, <<>>, <<updates[1]>>, Tail(updates)))
          /\ last' = Ran("beginApplyAll", d, r.branches, log1 \o r.log)
    /\ UNCHANGED <<pendingUpdates, disposed, prompts, currentPanel, filterMode, selectedFilters, timers, deletions, now, userId, channelVars, listed, presenceVars>>

\* the oldest suspended handler resumes after its await and runs to its
\* next await or to its end
Resume ==
    /\ microtasks # <<>>
    /\ LET c == Head(microtasks)
           d == c.panel
       IN \/ /\ c.op = "now"
             /\ LET p == c.prompt[1]
                    ids == appliedCellIds(p.newContent)
                    cleanup == ids # <<>> /\ ~disposed[d]
                    open == {j \in 1..Len(prompts) : prompts[j] = p}
                IN /\ pendingUpdates' = IF cleanup
                                        THEN [pendingUpdates EXCEPT ![d] = removeEach(getPendingUpdates(@, disposed[d]), ids)]
                                        ELSE pendingUpdates
                   /\ currentPanel' = IF cleanup THEN d ELSE currentPanel
                   /\ prompts' = IF open = {} THEN prompts
                                 ELSE removeAt(prompts, (CHOOSE j \in open : \A h \in open : j <= h) - 1)
             /\ microtasks' = Tail(microtasks)
             /\ last' = Ran("resume", d, <<>>, <<>>)
             /\ UNCHANGED <<cells, updatedCells>>
          \/ /\ c.op = "apply"
             /\ LET rem == removePendingUpdate(d, pendingUpdates[d], disposed[d], c.pending[1].id, FALSE, None, None, None, userId)
                IN pendingUpdates' = [pendingUpdates EXCEPT ![d] = rem.updates]
             /\ microtasks' = Tail(microtasks)
             /\ last' = Ran("resume", d, <<>>, <<>>)
             /\ UNCHANGED <<cells, updatedCells, prompts, currentPanel>>
          \/ /\ c.op = "applyAll"
             /\ LET rem == removePendingUpdate(d, pendingUpdates[d], disposed[d], c.pending[1].id, FALSE, None, None, None, userId)
                IN pendingUpdates' = [pendingUpdates EXCEPT ![d] = rem.updates]
             /\ IF c.rest = <<>>
                THEN /\ microtasks' = Tail(microtasks)
                     /\ last' = Ran("resume", d, <<>>, <<>>)
                     /\ UNCHANGED <<cells, updatedCells>>
                ELSE LET r == applyPendingUpdateMerge(d, cells[d], updatedCells[d], disposed[d], Head(c.rest), TRUE, now, userId)
                     IN /\ Len(r.cells) <= MaxCells
                        /\ cells' = [cells EXCEPT ![d] = r.cells]
                        /\ updatedCells' = [updatedCells EXCEPT ![d] = r.updated]
                        /\ microtasks' = Append(Tail(microtasks), Continuation("applyAll", d, <<>>, <<Head(c.rest)>>, Tail(c.rest)))
                        /\ last' = Ran("resume", d, r.branches, r.log)
             /\ UNCHANGED <<prompts, currentPanel>>
    /\ UNCHANGED <<disposed, filterMode, selectedFilters, timers, deletions, now, userId, channelVars, listed, presenceVars>>

\* notebook "A" with every handler cut at its awaits
NextTasks ==
    \/ idle /\ \E push \in BatchPushes : ReceiveMessage("A", push)
    \/ idle /\ \E i \in 1..Len(prompts) : UpdateLater(i)
    \/ \E i \in 1..Len(prompts) : BeginUpdateNow(i)
    \/ \E k \in 1..Len(Rows) : BeginApply(k)
    \/ BeginApplyAll
    \/ Resume

SpecTasks == Init /\ [][NextTasks]_vars

\* C34: two document mutations of one document never interleave: a merge
\* (cell insertion, overwrite, UpdatedCellsSet write) starts only when no
\* other apply is suspended, or as the next item of the one Apply All in
\* progress, whose previous item has completed in the same step; at most one
\* handler is suspended at any time
C34_RunsToCompletion ==
    [][/\ Len(microtasks') <= 1
       /\ (cells' # cells \/ updatedCells' # updatedCells \/ last'.op \in {"beginNow", "beginApply", "beginApplyAll"}) =>
             \/ microtasks = <<>>
             \/ /\ last'.op = "resume"
                /\ Len(microtasks) = 1
                /\ Head(microtasks).op = "applyAll"
                /\ withId(pendingUpdates'[currentPanel], Head(microtasks).pending[1].id) = <<>>]_vars

\* an Apply All with two items has merged its second item
C34_Witness ==
    /\ last.op = "resume"
    /\ last.branches # <<>>
    /\ microtasks # <<>>
    /\ Head(microtasks).op = "applyAll"

\* ------------------------------------------------- two notebooks, one sidebar
\* labShell.currentChanged: the user brings notebook panel to the front
SetCurrentPanel(panel) ==
    /\ currentPanel # panel
    /\ currentPanel' = panel
    /\ last' = Ran("setCurrentPanel", panel, <<>>, <<>>)
    /\ UNCHANGED <<cells, updatedCells, pendingUpdates, disposed, prompts, filterMode, selectedFilters, timers, deletions, now, userId, channelVars, listed, presenceVars, microtasks>>

\* both notebooks receive the teacher's update of cell o1; the user answers
\* the notifications, deletes cells of "A" only, and switches notebooks
NextPanels ==
    \/ \E d \in Docs : \E push \in {p \in CellPushes : p.message.update_id = "u1"} : ReceiveMessage(d, push)
    \/ \E i \in 1..Len(prompts) : UpdateNow(i)
    \/ \E i \in 1..Len(prompts) : UpdateLater(i)
    \/ \E i \in 0..(MaxCells - 1) : DeleteCell("A", i)
    \/ RunTimer
    \/ \E d \in Docs : SetCurrentPanel(d)

SpecPanels == Init /\ [][NextPanels]_vars

\* C35: the store and the UpdatedCellsSet of a notebook are changed only by
\* operations on that notebook: by the answer to one of its own
\* notifications, or by the cleanup of a deletion among its own cells (cells
\* are deleted in "A" only)
C35_OwnDocumentOnly ==
    [][\A d \in Docs :
          (pendingUpdates'[d] # pendingUpdates[d] \/ updatedCells'[d] # updatedCells[d]) =>
             IF last'.op = "timer" THEN d = "A" ELSE last'.panel = d]_vars

\* ------------------------------------------------- fetches that outlive their notebook
\* the most fetches in flight while the user moves between notebooks
MaxInFlight == 4

\* the location sidebar follows the user from notebook to notebook while
\* the fetches issued on the way are answered in any order
NextSwitch ==
    \/ \E panel \in Docs : Show(panel, MaxInFlight)
    \/ \E k \in 1..Len(fetches) :
          \/ \E teammates \in {<<>>, <<"al">>, <<"al", "bo">>} :
                TeammatesFetched(k, teammates)
          \/ \E locations \in FetchedLocations : LocationsFetched(k, locations)

SpecSwitch == InitCopies /\ [][NextSwitch]_vars

\* the k-th fetch in flight is the one this step answers
answered(k) ==
    /\ last'.op \in {"teammatesFetched", "locationsFetched"}
    /\ fetches' = removeAt(fetches, k - 1)

\* C36: the answer to a fetch issued for a notebook the sidebar has left
\* is discarded: it changes neither the connected teammates nor the teammate
\* locations held for the notebook shown now
C36_StaleFetchDiscarded ==
    [][\A k \in 1..Len(fetches) :
          (answered(k) /\ fetches[k].panel # notebookPanel
             /\ \A j \in 1..Len(fetches) : fetches[j] = fetches[k] => j = k) =>
             /\ connectedTeammates' = connectedTeammates
             /\ teammateLocations' = teammateLocations]_vars

\* C37: a location event that arrives while a fetch of the locations is in
\* flight is not undone by the answer: when the answer follows the event,
\* the peer's location stays what the event made it (set by a
\* location-update, absent after a location-cleared)
C37_EventOutlivesFetch ==
    [][\A k \in 1..Len(fetches) :
          (/\ last.op \in {"updateTeammateLocation", "removeTeammateLocation"}
           /\ fetches[k].kind = "locations"
           /\ answered(k)
           /\ last'.op = "locationsFetched") =>
             locationOf(teammateLocations', last.panel) = locationOf(teammateLocations, last.panel)]_vars

\* the deferred cell contents of a store list that are destined for cell id
\* y: the elements of the stored cells arrays whose id is y
destined(updates, y) ==
    UNION {{u.message.cells[c] : c \in {n \in 1..Len(u.message.cells) :
                                          /\ u.message.cells[n].ok
                                          /\ Or(u.message.cells[n].id, u.message.cells[n].cell_id) = y}}
           : u \in Range(updates)}

\* the cell ids a received content carries
carriedIds(newContent) ==
    {Or(newContent.cells[c].id, newContent.cells[c].cell_id) :
        c \in {n \in 1..Len(newContent.cells) : newContent.cells[n].ok}}

\* the cell ids the deferred contents of a store list are destined for
storedIds(updates) == UNION {carriedIds(u.message) : u \in Range(updates)}

\* C38: deferring or applying an update for cell ids X removes from the store
\* no deferred content destined for a cell id outside X
C38_OtherCellsKept ==
    [][/\ \A i \in 1..Len(prompts) :
             (last'.op \in {"later", "now"} /\ (UpdateLater(i) \/ UpdateNow(i))) =>
                \A y \in storedIds(pendingUpdates[prompts[i].panel]) \ carriedIds(prompts[i].newContent) :
                   destined(pendingUpdates[prompts[i].panel], y)
                      \subseteq destined(pendingUpdates'[prompts[i].panel], y)
       /\ \A k \in 1..Len(Rows) :
             (last'.op = "apply" /\ ApplySingle(k)) =>
                \A y \in storedIds(pendingUpdates[currentPanel]) \ carriedIds(Rows[k].message) :
                   destined(pendingUpdates[currentPanel], y)
                      \subseteq destined(pendingUpdates'[currentPanel], y)]_vars

\* ------------------------------------------------- applying what resolution named
\* the teacher's payloads of cell-id resolution, applied at once or from the
\* store
NextTarget ==
    \/ \E push \in {p \in ResolvePushes : p.sender = "teacher"} :
          /\ Len(prompts) + Len(pendingUpdates["A"]) < MaxTracked
          /\ ReceiveMessage("A", push)
    \/ \E i \in 1..Len(prompts) : UpdateNow(i)
    \/ \E i \in 1..Len(prompts) : UpdateLater(i)
    \/ \E k \in 1..Len(Rows) : ApplySingle(k)

SpecTarget == Init /\ [][NextTarget]_vars

\* the cells of cs mapped to original id x hold a received source of content
reaches(cs, x, newContent, t) ==
    \E k \in 1..Len(cs) : \E c \in 1..Len(newContent.cells) :
        /\ cs[k].orig = x
        /\ newContent.cells[c].ok
        /\ cs[k].src = cellUpdateSource(newContent.cells[c], t)

\* C39: the merge finds its target under the id resolution assigned: when
\* resolution gave the update id X and X is in the mapping, applying the
\* update leaves the received content in a cell mapped to X and appends no
\* cell
C39_MergeUsesResolvedId ==
    [][/\ \A i \in 1..Len(prompts) :
             (/\ last'.op = "now"
              /\ UpdateNow(i)
              /\ prompts[i].cellId # None
              /\ includes(getOrigCellMapping(cells[prompts[i].panel]), prompts[i].cellId)) =>
                /\ reaches(cells'[prompts[i].panel], prompts[i].cellId, prompts[i].newContent, now)
                /\ "append" \notin Range(last'.branches)
       /\ \A k \in 1..Len(Rows) :
             (/\ last'.op = "apply"
              /\ ApplySingle(k)
              /\ Rows[k].cellId # None
              /\ Len(Rows[k].message.cells) = 1
              /\ includes(getOrigCellMapping(cells[currentPanel]), Rows[k].cellId)) =>
                /\ reaches(cells'[currentPanel], Rows[k].cellId, Rows[k].message, now)
                /\ "append" \notin Range(last'.branches)]_vars

\* ------------------------------------------------- callbacks across connections
\* the channel client through connects and disconnects, with the sidebar's
\* callbacks registered at any moment and the server's teammate and location
\* events arriving on the open connection
NextLifecycle ==
    \/ \E notebookId \in Docs \cup {None}, onMessage \in MessageCallbacks : EstablishSocketConnection(notebookId, onMessage)
    \/ CloseSocketConnection
    \/ \E callback \in OtherCallbacks : OnTeammateChange(callback)
    \/ \E callback \in OtherCallbacks : OnLocationUpdate(callback)
    \/ \E callback \in OtherCallbacks : OnLocationCleared(callback)
    \/ \E c \in 1..MaxConnections, event \in {"teammate_connected", "teammate_disconnected"}, data \in TeammateData : TeammateChangeEvent(c, event, data)
    \/ \E c \in 1..MaxConnections, data \in LocationData : TeammateLocationUpdateEvent(c, data)
    \/ \E c \in 1..MaxConnections, data \in TeammateData : TeammateLocationClearedEvent(c, data)

SpecLifecycle == Init /\ [][NextLifecycle]_vars

\* C40: establish and teardown leave the registered teammate-change,
\* location-update and location-cleared callbacks as they are; teardown
\* leaves the message callback too, establish replaces only that one; so an
\* event on any later connection reaches the callback registered before
C40_CallbacksSurvive ==
    [][/\ last'.op \in {"establish", "close"} =>
             /\ callbacks'.teammateChange = callbacks.teammateChange
             /\ callbacks'.locationUpdate = callbacks.locationUpdate
             /\ callbacks'.locationCleared = callbacks.locationCleared
       /\ last'.op = "close" => callbacks'.message = callbacks.message
       /\ (last'.op \in {"teammate_connected", "teammate_disconnected"} /\ callbacks.teammateChange # None) =>
             Len(delivered') = 1 /\ delivered'[1].callback = callbacks.teammateChange
       /\ (last'.op = "teammate_location_update" /\ callbacks.locationUpdate # None) =>
             Len(delivered') = 1 /\ delivered'[1].callback = callbacks.locationUpdate
       /\ (last'.op = "teammate_location_cleared" /\ callbacks.locationCleared # None) =>
             Len(delivered') = 1 /\ delivered'[1].callback = callbacks.locationCleared]_vars

\* C40's case: a location event on the second connection has reached the
\* registered callback while the first connection is closed
C40_Witness ==
    /\ Len(connections) = 2
    /\ ~connections[1].open
    /\ socket = 2
    /\ last.op = "teammate_location_update"
    /\ delivered = <<Call("callback1", <<[userId |-> "al", cellId |-> "o1", cellIndex |-> <<0>>]>>)>>

====
